---- MODULE Spec2Model ----
(***************************************************************************)
(* Resolution pipeline of dou-image-tool: DouyinVideoParser.parse and      *)
(* DouyinProductParser.parse (strategy chains), and the no-watermark       *)
(* selector _get_no_watermark_url.                                         *)
(*                                                                         *)
(* A Python str is a sequence of tokens; a token is a run of characters    *)
(* that no literal of the source splits ('watermark=1' is the two tokens   *)
(* "watermark", "=1"; 'playwm' is "play", "wm"), so `in` and str.replace   *)
(* are substring search and substring replacement on token sequences.      *)
(***************************************************************************)
EXTENDS Integers, Sequences, FiniteSets, TLC

(* ---------------------------------------------------------------------- *)
(* Bounds                                                                  *)
(* ---------------------------------------------------------------------- *)
\* concurrent product resolution calls
NumCalls == 2
\* longest play_addr.url_list given to the selector
MaxPlay == 2
\* longest video.bit_rate list given to the selector
MaxVariants == 2

(* ---------------------------------------------------------------------- *)
(* str operations                                                          *)
(* ---------------------------------------------------------------------- *)
\* pat in s
Contains(s, pat) ==
  \E i \in 1..(Len(s) - Len(pat) + 1) : SubSeq(s, i, i + Len(pat) - 1) = pat

\* s.replace(old, new): leftmost, non-overlapping occurrences
RECURSIVE StrReplace(_, _, _)
StrReplace(s, old, new) ==
  IF Len(s) < Len(old) THEN s
  ELSE IF SubSeq(s, 1, Len(old)) = old
       THEN new \o StrReplace(SubSeq(s, Len(old) + 1, Len(s)), old, new)
       ELSE <<Head(s)>> \o StrReplace(Tail(s), old, new)

\* the literals of video_parser.py
WM1 == <<"watermark", "=1">>
WM0 == <<"watermark", "=0">>
PLAYWM == <<"play", "wm">>
PLAY == <<"play">>
SNSSDK == <<"aweme.", "snssdk.com">>
VDOUYIN == <<"v.", "douyin.com">>
ESC_SLASH == <<"\\u002F">>
SLASH == <<"/">>

\* sequences over S of length 0..n
SeqUpTo(S, n) == UNION {[1..k -> S] : k \in 0..n}

(* ---------------------------------------------------------------------- *)
(* Upstream video URLs                                                     *)
(* ---------------------------------------------------------------------- *)
EmptyUrl == <<>>
RedirectUrl == <<"https:", "/", "/", "v.", "douyin.com", "/", "play", "wm", "/", "?", "watermark", "=1">>
DirectUrl == <<"https:", "/", "/", "aweme.", "snssdk.com", "/", "play", "wm", "/", "?", "watermark", "=1">>
CleanUrl == <<"https:", "/", "/", "cdn", "/", "play", "/", "?", "watermark", "=0">>
DownloadUrl == <<"https:", "/", "/", "cdn", "/", "download", "?", "watermark", "=1">>

PlayUrls == {EmptyUrl, RedirectUrl, DirectUrl, CleanUrl}
PlayLists == SeqUpTo(PlayUrls, MaxPlay)
VariantLists == {<<>>, <<DirectUrl>>, <<CleanUrl, DirectUrl>>}
Rates == {0, 1, 2}
Variants == [bit_rate : Rates, url_list : VariantLists]
DownloadLists == {<<>>, <<EmptyUrl>>, <<DownloadUrl>>}

\* the 'video' part of an aweme_detail; a missing key or an empty dict reads
\* as the empty list, a missing 'bit_rate' of a variant as 0
VideoParts ==
  [play_addr : PlayLists,
   bit_rate : SeqUpTo(Variants, MaxVariants),
   download_addr : DownloadLists]

(* ---------------------------------------------------------------------- *)
(* _get_no_watermark_url                                                   *)
(* ---------------------------------------------------------------------- *)
Found(u) == [ok |-> TRUE, url |-> u, reason |-> "none"]
CannotFindVideoUrl == [ok |-> FALSE, url |-> <<>>, reason |-> "Cannot find video URL"]

\* url.replace('watermark=1', 'watermark=0')
ToggleOff(u) == StrReplace(u, WM1, WM0)

\* the for loop over play_addr.url_list: <<url>> when it returns, <<>> when it falls through
RECURSIVE PlayLoop(_)
PlayLoop(url_list) ==
  IF url_list = <<>> THEN <<>>
  ELSE LET raw == Head(url_list)
           url == IF Contains(raw, <<"watermark">>) THEN ToggleOff(raw) ELSE raw
       IN IF Contains(url, SNSSDK) \/ ~Contains(url, VDOUYIN)
          THEN <<url>>
          ELSE PlayLoop(Tail(url_list))

RateOrderAsc(a, b) == a <= b
\* sorted(..., reverse=True): a stays before b
RateOrder(a, b) == a >= b

RECURSIVE InsertRate(_, _)
InsertRate(r, sorted) ==
  IF sorted = <<>> THEN <<r>>
  ELSE IF RateOrder(Head(sorted).bit_rate, r.bit_rate)
       THEN <<Head(sorted)>> \o InsertRate(r, Tail(sorted))
       ELSE <<r>> \o sorted

\* sorted(bit_rate, key=lambda x: x.get('bit_rate', 0), reverse=True), stable
RECURSIVE SortedRates(_)
SortedRates(bit_rate) ==
  IF bit_rate = <<>> THEN <<>>
  ELSE InsertRate(bit_rate[Len(bit_rate)],
                  SortedRates(SubSeq(bit_rate, 1, Len(bit_rate) - 1)))

\* the for loop over sorted_rates
RECURSIVE RateLoop(_)
RateLoop(sorted_rates) ==
  IF sorted_rates = <<>> THEN <<>>
  ELSE IF Head(sorted_rates).url_list # <<>>
       THEN <<ToggleOff(Head(sorted_rates).url_list[1])>>
       ELSE RateLoop(Tail(sorted_rates))

_get_no_watermark_url(aweme_detail) ==
  LET video_info == aweme_detail.video
      fromPlay == PlayLoop(video_info.play_addr)
      fromRate == RateLoop(SortedRates(video_info.bit_rate))
  IN IF fromPlay # <<>> THEN Found(fromPlay[1])
     ELSE IF video_info.play_addr # <<>> THEN Found(ToggleOff(video_info.play_addr[1]))
     ELSE IF fromRate # <<>> THEN Found(fromRate[1])
     ELSE IF video_info.download_addr # <<>> THEN Found(video_info.download_addr[1])
     ELSE CannotFindVideoUrl

(* ---------------------------------------------------------------------- *)
(* Strategy outcomes                                                       *)
(* ---------------------------------------------------------------------- *)
\* what a strategy call produced: an object, None, or an exception
\* (attempts: the per-strategy reasons an exception carries in its message)
Value(info) == [kind |-> "value", value |-> <<info>>, reason |-> "none", attempts |-> <<>>]
NoneResult == [kind |-> "none", value |-> <<>>, reason |-> "none", attempts |-> <<>>]
Raise(reason) == [kind |-> "raise", value |-> <<>>, reason |-> reason, attempts |-> <<>>]

\* VideoInfo(video_id=..., title=..., video_url=...); the other fields are
\* copied from the response and read by nothing in parse
VideoInfo(video_id, title, video_url) ==
  [video_id |-> video_id, title |-> title, video_url |-> video_url]

Propagate(o) == o
\* except Exception: pass (video_parser.py), except Exception: return None (product_parser.py)
Swallow(o) == IF o.kind = "raise" THEN [o EXCEPT !.kind = "caught"] ELSE o


Titles == {<<>>, <<"desc">>}
DigitTokens == {"735", "7350000000000000001"}
Ids == {<<>>, <<"735">>}

(* ---------------------------------------------------------------------- *)
(* Link normalizer (video)                                                 *)
(* ---------------------------------------------------------------------- *)
\* re.search(prefix + r'(\d+)', url): group(1) of the leftmost match, <<>> without a match
SearchDigits(url, prefix) ==
  LET hits == {i \in 1..(Len(url) - Len(prefix)) :
                 /\ SubSeq(url, i, i + Len(prefix) - 1) = prefix
                 /\ url[i + Len(prefix)] \in DigitTokens}
  IN IF hits = {} THEN <<>>
     ELSE LET first == CHOOSE i \in hits : \A j \in hits : i <= j
          IN <<url[first + Len(prefix)]>>

\* None is <<>>: the caller only tests `not video_id`
extract_video_id(url) ==
  IF SearchDigits(url, <<"/video", "/">>) # <<>> THEN SearchDigits(url, <<"/video", "/">>)
  ELSE IF SearchDigits(url, <<"modal_", "id=">>) # <<>> THEN SearchDigits(url, <<"modal_", "id=">>)
  ELSE SearchDigits(url, <<"/note", "/">>)

ShortVideoLink == <<"https:", "/", "/", "v.", "douyin.com", "/", "abc">>
TiktokShortLink == <<"https:", "/", "/", "vm.", "tiktok.com", "/", "abc">>
CanonicalVideoLink == <<"https:", "/", "/", "www.", "douyin.com", "/video", "/", "735">>
ModalVideoLink == <<"https:", "/", "/", "www.", "douyin.com", "/", "?", "modal_", "id=", "735">>
NoteLink == <<"https:", "/", "/", "www.", "douyin.com", "/note", "/", "735">>
SharePageLink == <<"https:", "/", "/", "www.", "iesdouyin.com", "/share", "/video", "/", "735">>
SharePageNoIdLink == <<"https:", "/", "/", "www.", "iesdouyin.com", "/share", "/video", "/", "abc">>
UserPageLink == <<"https:", "/", "/", "www.", "douyin.com", "/", "abc">>

VideoUrls ==
  {ShortVideoLink, TiktokShortLink, CanonicalVideoLink, ModalVideoLink, NoteLink,
   SharePageLink, SharePageNoIdLink, UserPageLink}

\* 'v.douyin.com' in url or 'vm.tiktok.com' in url
IsShortLink(url) == Contains(url, VDOUYIN) \/ Contains(url, <<"vm.", "tiktok.com">>)
\* 'iesdouyin.com/share/video/' in real_url
IsSharePage(real_url) == Contains(real_url, <<"iesdouyin.com", "/share", "/video", "/">>)

\* get_real_url: the redirect answer of the HTTP collaborator, or its failure
RedirectResps ==
  {[fails |-> TRUE, location |-> <<>>]} \cup [fails : {FALSE}, location : VideoUrls]

(* ---------------------------------------------------------------------- *)
(* Video strategies                                                        *)
(* ---------------------------------------------------------------------- *)
\* s.replace('\\u002F', '/')
Unescape(s) == StrReplace(s, ESC_SLASH, SLASH)

EscapedUrl == <<"https:", "\\u002F", "\\u002F", "aweme.", "snssdk.com", "\\u002F", "play", "wm", "\\u002F", "?", "watermark", "=1">>

\* the share page as its three video patterns see it: each capture is <<>> (no
\* match) or <<group(1)>>; [^"]+ never captures the empty string
ShareHtmls ==
  [playAddrSrc : {<<>>, <<EscapedUrl>>, <<CleanUrl>>},
   playwmSrc : {<<>>, <<EscapedUrl>>},
   urlListSrc : {<<>>, <<DirectUrl>>},
   desc : Titles]
ShareResps ==
  {[fails |-> TRUE, html |-> <<>>]} \cup [fails : {FALSE}, html : {<<h>> : h \in ShareHtmls}]

_parse_from_share_page(share_url, resp) ==
  IF resp.fails THEN Raise("http")
  ELSE LET html == resp.html[1]
           video_id == SearchDigits(share_url, <<"/video", "/">>)
           captured == html.playAddrSrc \o html.playwmSrc \o html.urlListSrc
           video_url == IF captured = <<>> THEN <<>>
                        ELSE StrReplace(Unescape(captured[1]), PLAYWM, PLAY)
       IN IF video_url = <<>> THEN NoneResult
          ELSE Value(VideoInfo(video_id, Unescape(html.desc), video_url))

\* item_list[0] of the mobile API
MobileItems ==
  [aweme_id : Ids, desc : Titles,
   play_addr : {<<>>, <<EmptyUrl>>, <<DirectUrl>>, <<CleanUrl>>}]
MobileResps ==
  {[fails |-> TRUE, status_code |-> 0, item_list |-> <<>>]}
    \cup [fails : {FALSE}, status_code : {0, 1},
          item_list : {<<>>} \cup {<<i>> : i \in MobileItems}]

_extract_video_info_v2(item) ==
  LET video_url == IF item.play_addr = <<>> THEN <<>>
                   ELSE StrReplace(ToggleOff(item.play_addr[1]), PLAYWM, PLAY)
  IN VideoInfo(item.aweme_id, item.desc, video_url)

_parse_from_mobile_api(video_id, resp) ==
  IF resp.fails THEN Raise("http")
  ELSE IF resp.status_code # 0 THEN NoneResult
  ELSE IF resp.item_list = <<>> THEN NoneResult
  ELSE Value(_extract_video_info_v2(resp.item_list[1]))

\* aweme_detail of the web API and of the page's embedded JSON
AwemeDetails ==
  [aweme_id : Ids, desc : Titles,
   video : [play_addr : {<<>>, <<DirectUrl>>, <<RedirectUrl, CleanUrl>>},
            bit_rate : {<<>>, <<[bit_rate |-> 1, url_list |-> <<CleanUrl, DirectUrl>>]>>},
            download_addr : {<<>>, <<DownloadUrl>>}]]

_extract_video_info(aweme_detail) ==
  LET sel == _get_no_watermark_url(aweme_detail)
  IN IF sel.ok
     THEN Value(VideoInfo(aweme_detail.aweme_id, aweme_detail.desc, sel.url))
     ELSE Raise(sel.reason)

WebApiResps ==
  {[fails |-> TRUE, status_code |-> 0, aweme_detail |-> <<>>]}
    \cup [fails : {FALSE}, status_code : {0, 1},
          aweme_detail : {<<>>} \cup {<<d>> : d \in AwemeDetails}]

\* method 2 of parse: the request, response.json() and the two ifs
web_api(video_id, resp) ==
  IF resp.fails THEN Raise("http")
  ELSE IF resp.status_code # 0 THEN NoneResult
  ELSE IF resp.aweme_detail = <<>> THEN NoneResult
  ELSE _extract_video_info(resp.aweme_detail[1])

\* the details embedded in a video page
PageDetails ==
  {d \in AwemeDetails : d.aweme_id = <<"735">> /\ d.desc = <<"desc">>
                        /\ d.video.bit_rate = <<>> /\ Len(d.video.play_addr) < 2}

\* the page as _parse_from_webpage reads it.
\*  render: RENDER_DATA script: "absent" | "bad_json" | "no_keys" |
\*          "aweme_no_detail" | "aweme" | "awemeDetail" (the last two with detail)
\*  ssr:    _SSR_HYDRATED_DATA: "absent" | "bad_json" | "no_aweme" | "aweme_no_detail" | "aweme"
\*  playAddrSrc, urlListSrc: captures of the two last-resort patterns
WebPages ==
  [render : {"absent", "bad_json", "no_keys", "aweme_no_detail", "aweme", "awemeDetail"},
   ssr : {"absent", "bad_json", "no_aweme", "aweme_no_detail", "aweme"},
   detail : PageDetails,
   playAddrSrc : {<<>>, <<EscapedUrl>>},
   urlListSrc : {<<>>, <<DirectUrl>>},
   desc : Titles]
WebPageResps ==
  {[fails |-> TRUE, html |-> <<>>]} \cup [fails : {FALSE}, html : {<<h>> : h \in WebPages}]

\* raise Exception(f"Failed to parse from webpage: {e}")
webpage_exception_bare(e) == Raise("Failed to parse from webpage")
webpage_exception(e) ==
  [kind |-> "raise", value |-> <<>>, reason |-> "Failed to parse from webpage",
   attempts |-> <<[strategy |-> "webpage", reason |-> e]>>]

\* method 3: the two regexes on the HTML
webpage_regex(video_id, html) ==
  LET captured == html.playAddrSrc \o html.urlListSrc
  IN IF captured = <<>> THEN Raise("Cannot find video data in webpage")
     ELSE Value(VideoInfo(video_id, html.desc, ToggleOff(Unescape(captured[1]))))

\* method 2: every exception inside is swallowed by the bare except
webpage_ssr(video_id, html) ==
  LET found == IF html.ssr = "aweme" THEN _extract_video_info(html.detail)
               ELSE Raise("ssr")
  IN IF found.kind = "value" THEN found ELSE webpage_regex(video_id, html)

\* method 1 and the try/except around the three methods
_parse_from_webpage(video_id, resp) ==
  LET html == resp.html[1]
      inner ==
        IF resp.fails THEN Raise("http")
        ELSE IF html.render = "bad_json" THEN Raise("JSONDecodeError")
        ELSE IF html.render = "aweme_no_detail" THEN Raise("KeyError")
        ELSE IF html.render \in {"aweme", "awemeDetail"} THEN _extract_video_info(html.detail)
        ELSE webpage_ssr(video_id, html)
  IN IF inner.kind = "raise" THEN webpage_exception(inner.reason) ELSE inner

(* ---------------------------------------------------------------------- *)
(* Product: identifier, validity predicate, harvest                        *)
(* ---------------------------------------------------------------------- *)
HaohuoLink == <<"https:", "/", "/", "haohuo.", "jinritemai.com", "/", "item", "?", "id=", "735">>
BareIdLink == <<"https:", "/", "/", "haohuo.", "jinritemai.com", "/", "7350000000000000001">>
ShortProductLink == <<"https:", "/", "/", "v.", "douyin.com", "/", "abc">>
UnknownHostLink == <<"https:", "/", "/", "example.com", "/", "abc">>
HaohuoNoIdLink == <<"https:", "/", "/", "haohuo.", "jinritemai.com", "/", "item", "/", "abc">>
UnknownHostIdLink == <<"https:", "/", "/", "example.com", "/", "?", "id=", "735">>
ProductUrls ==
  {HaohuoLink, BareIdLink, ShortProductLink, UnknownHostLink, HaohuoNoIdLink, UnknownHostIdLink}

\* r'/(\d{15,})(?:\?|$|&)'
SearchBareId(url) ==
  LET hits == {i \in 1..(Len(url) - 1) :
                 /\ url[i] = "/"
                 /\ url[i + 1] \in DigitTokens
                 /\ Len(url[i + 1]) >= 15
                 /\ (i + 1 = Len(url) \/ url[i + 2] \in {"?", "&"})}
  IN IF hits = {} THEN <<>>
     ELSE LET first == CHOOSE i \in hits : \A j \in hits : i <= j
          IN <<url[first + 1]>>

NeverShortLink(url) == FALSE
\* 'v.douyin.com' in url or 'douyin.com' in url
LooksLikeShortLink(url) == Contains(url, VDOUYIN) \/ Contains(url, <<"douyin.com">>)

\* [ok, id]: ok = FALSE is the ValueError
extract_product_id(url) ==
  IF SearchDigits(url, <<"commodity_", "id=">>) # <<>>
    THEN [ok |-> TRUE, id |-> SearchDigits(url, <<"commodity_", "id=">>)]
  ELSE IF SearchDigits(url, <<"id=">>) # <<>>
    THEN [ok |-> TRUE, id |-> SearchDigits(url, <<"id=">>)]
  ELSE IF SearchDigits(url, <<"product_", "id=">>) # <<>>
    THEN [ok |-> TRUE, id |-> SearchDigits(url, <<"product_", "id=">>)]
  ELSE IF SearchBareId(url) # <<>>
    THEN [ok |-> TRUE, id |-> SearchBareId(url)]
  ELSE IF LooksLikeShortLink(url)
    THEN [ok |-> TRUE, id |-> <<"SHORT_LINK">>]
  ELSE [ok |-> FALSE, id |-> <<>>]

\* len(url)
RECURSIVE StrLen(_)
StrLen(s) == IF s = <<>> THEN 0 ELSE Len(Head(s)) + StrLen(Tail(s))

\* url.lower()
LowerToken(t) ==
  CASE t = "ICON" -> "icon"
    [] t = "Main" -> "main"
    [] t = ".JPG" -> ".jpg"
    [] t = "Logo" -> "logo"
    [] t = "Item" -> "item"
    [] t = "BYTEIMG.COM" -> "byteimg.com"
    [] OTHER -> t
Lower(s) == [i \in 1..Len(s) |-> LowerToken(s[i])]

MinUrlLen == 20
ExcludePatterns ==
  {"icon", "logo", "avatar", "emoji", "badge", "loading", "placeholder", "default",
   "1x1", "2x2", "blank", "transparent", "sprite", "btn", "button"}
ImageExts == {".jpg", ".jpeg", ".png", ".webp"}
BytedanceCdns == {"ecombdimg.com", "bytetos.com", "douyinpic.com", "byteimg.com"}

HasToken(s, T) == \E i \in 1..Len(s) : s[i] \in T

AsWritten(url) == url
\* url_lower = url.lower()
url_lower(url) == Lower(url)

_is_valid_product_image(url) ==
  /\ url # <<>>
  /\ StrLen(url) >= MinUrlLen
  /\ ~HasToken(url_lower(url), ExcludePatterns)
  /\ (HasToken(url_lower(url), ImageExts) \/ HasToken(url_lower(url), BytedanceCdns))

\* img_url.rstrip('",;')
RECURSIVE RStrip(_)
RStrip(s) ==
  IF s # <<>> /\ s[Len(s)] \in {"\"", ",", ";"}
  THEN RStrip(SubSeq(s, 1, Len(s) - 1))
  ELSE s

MainImg == <<"https:", "/", "/", "p3-aio.", "ecombdimg.com", "/", "Main", "/", "a", ".jpg">>
DetailImg == <<"https:", "/", "/", "p3-aio.", "ecombdimg.com", "/", "desc", "/", "b", ".jpg">>
DetailImgSemi == DetailImg \o <<";">>
IconImg == <<"https:", "/", "/", "p3-aio.", "ecombdimg.com", "/", "icon", "/", "c", ".jpg">>
ImageCandidates == {MainImg, DetailImg, DetailImgSemi, IconImg}

\* the orders in which a Python set or list(set(...)) may enumerate S
Perms(S) ==
  {f \in [1..Cardinality(S) -> S] : \A i, j \in 1..Cardinality(S) : i # j => f[i] # f[j]}
ToSet(s) == {s[i] : i \in 1..Len(s)}
RECURSIVE Filter(_, _)
Filter(s, S) ==
  IF s = <<>> THEN <<>>
  ELSE IF Head(s) \in S THEN <<Head(s)>> \o Filter(Tail(s), S) ELSE Filter(Tail(s), S)

PromoteCount == 5
ClassifyDropRest(order, mainOnes) ==
  [main |-> SubSeq(order, 1, IF Len(order) < PromoteCount THEN Len(order) ELSE PromoteCount),
   detail |-> <<>>]
\* the promotion that leaves detail_images as it was
ClassifyKeepPromoted(order, mainOnes) ==
  [main |-> SubSeq(order, 1, IF Len(order) < PromoteCount THEN Len(order) ELSE PromoteCount),
   detail |-> Filter(order, ToSet(order) \ mainOnes)]
\* the classification loop and the promotion of the first five detail images,
\* over the images in the enumeration order `order`; mainOnes are the images
\* whose URL has a main keyword
Classify(order, mainOnes) ==
  LET main == Filter(order, mainOnes)
      detail == Filter(order, ToSet(order) \ mainOnes)
  IN IF main = <<>> /\ detail # <<>>
     THEN [main |-> SubSeq(detail, 1, IF Len(detail) < PromoteCount THEN Len(detail) ELSE PromoteCount),
           detail |-> SubSeq(detail, PromoteCount + 1, Len(detail))]
     ELSE [main |-> main, detail |-> detail]

\* any(kw in img_url.lower() for kw in [...]) of the rendered-DOM strategy
IsMainRendered(u) == HasToken(Lower(u), {"main", "primary", "cover", "thumb", "origin"})
\* any(kw in img_url for kw in [...]) of the static-HTML strategy
IsMainStatic(u) == HasToken(u, {"main", "primary", "cover", "thumb"})

\* ProductInfo(product_id=..., main_images=..., detail_images=...)
ProductInfo(product_id, main_images, detail_images) ==
  [product_id |-> product_id, main_images |-> main_images, detail_images |-> detail_images]

AnyLists(mainSet, detailSet) == TRUE
\* if main_images or detail_images: return ProductInfo(...)
HasImages(mainSet, detailSet) == mainSet # {} \/ detailSet # {}

\* the outcomes the build can produce: list(set(...)) enumerates in any order
ProductOutcomes(product_id, mainSet, detailSet) ==
  IF ~HasImages(mainSet, detailSet) THEN {NoneResult}
  ELSE {Value(ProductInfo(product_id, m, d)) : m \in Perms(mainSet), d \in Perms(detailSet)}

\* what the browser hands back: an exception anywhere between goto and
\* content(), or the final URL and the regex matches in the rendered HTML
RenderResps ==
  {[fails |-> TRUE, final_url |-> <<>>, matches |-> {}]}
    \cup [fails : {FALSE}, final_url : {HaohuoLink, ShortProductLink},
          matches : {S \in SUBSET ImageCandidates : Cardinality(S) <= 2}]

\* the loop over the matches: rstrip, validity, all_images.add
accepted_rendered(matches) == {u \in {RStrip(m) : m \in matches} : _is_valid_product_image(u)}
\* the same loop of the static-HTML strategy: no rstrip
accepted_static(matches) == {u \in matches : _is_valid_product_image(u)}

\* _parse_with_playwright from page.url on: the set of outcomes
harvest_rendered(product_id, resp) ==
  LET recovered == IF product_id = <<"unknown">> /\ SearchDigits(resp.final_url, <<"id=">>) # <<>>
                   THEN SearchDigits(resp.final_url, <<"id=">>)
                   ELSE product_id
      all_images == accepted_rendered(resp.matches)
  IN IF resp.fails THEN {Swallow(Raise("render"))}
     ELSE UNION {LET c == Classify(order, {u \in all_images : IsMainRendered(u)})
                 IN ProductOutcomes(recovered, ToSet(c.main), ToSet(c.detail))
                 : order \in Perms(all_images)}

(* ---------------------------------------------------------------------- *)
(* Embedded JSON: json.loads values and the two miners                     *)
(* ---------------------------------------------------------------------- *)
\* the value of an expression, computed once: the element of a one-element set
Only(S) == CHOOSE x \in S : TRUE

\* a json.loads value: t is "str" (s holds the text), "obj" (kids holds the
\* items in source order, k the key), "arr" (kids holds the elements, k
\* unused) or "num"
Str(s) == [t |-> "str", s |-> s, kids |-> <<>>]
Num == [t |-> "num", s |-> <<>>, kids |-> <<>>]
KV(k, v) == [k |-> k, v |-> v]
Obj(kids) == [t |-> "obj", s |-> <<>>, kids |-> kids]
Arr(items) == [t |-> "arr", s |-> <<>>, kids |-> [i \in 1..Len(items) |-> KV(<<>>, items[i])]]

\* isinstance(value, (dict, list))
IsContainer(node) == node.t \in {"obj", "arr"}

\* the key lists of _extract_images_from_json
image_keys ==
  {<<"images">>, <<"imgs">>, <<"image_list">>, <<"pic_list">>, <<"gallery">>, <<"photos">>}
main_keys == {<<"main_", "img">>, <<"main_", "image">>, <<"cover">>, <<"thumb">>, <<"primary">>}
detail_keys == {<<"detail_", "images">>, <<"desc_", "images">>, <<"detail_", "pics">>}
title_keys == {<<"title">>, <<"name">>, <<"product_", "name">>, <<"goods_", "name">>}
video_keys == {<<"video">>, <<"video", "_url">>, <<"video", "_src">>}

\* any(k in key_lower for k in keys)
KeyHas(key_lower, keys) == \E k \in keys : Contains(key_lower, k)

\* dict.get(key) of a str value; a missing key and '' are both falsy
GetStr(img, key) ==
  LET hits == {i \in 1..Len(img.kids) : img.kids[i].k = key /\ img.kids[i].v.t = "str"}
  IN IF hits = {} THEN <<>> ELSE img.kids[CHOOSE i \in hits : \A j \in hits : j <= i].v.s

\* img.get('url') or img.get('src') or img.get('img')
ImgUrlOf(img) ==
  IF GetStr(img, <<"url">>) # <<>> THEN GetStr(img, <<"url">>)
  ELSE IF GetStr(img, <<"src">>) # <<>> THEN GetStr(img, <<"src">>)
  ELSE GetStr(img, <<"img">>)

\* the URL an element of an image list stands for, <<>> when it is skipped
ListedUrl(img) ==
  LET u == IF img.t = "str" THEN img.s ELSE IF img.t = "obj" THEN ImgUrlOf(img) ELSE <<>>
  IN IF _is_valid_product_image(u) THEN u ELSE <<>>

\* {'main': [], 'detail': [], 'title': '', 'video': None}
EmptyMined == [main |-> <<>>, detail |-> <<>>, title |-> <<>>, video |-> <<>>]

\* result[field].append(url) for every element of the list that stands for a URL
RECURSIVE AppendListed(_, _, _)
AppendListed(result, field, items) ==
  IF items = <<>> THEN result
  ELSE LET u == ListedUrl(Head(items).v)
           next == IF u = <<>> THEN result
                   ELSE IF field = "main" THEN [result EXCEPT !.main = Append(@, u)]
                   ELSE [result EXCEPT !.detail = Append(@, u)]
       IN AppendListed(next, field, Tail(items))

MainCap == 5
\* the generic image list: main while len(result['main']) < 5, then detail
RECURSIVE AppendGeneric(_, _)
AppendGeneric(result, items) ==
  IF items = <<>> THEN result
  ELSE LET u == ListedUrl(Head(items).v)
           next == IF u = <<>> THEN result
                   ELSE IF Len(result.main) < MainCap THEN [result EXCEPT !.main = Append(@, u)]
                   ELSE [result EXCEPT !.detail = Append(@, u)]
       IN AppendGeneric(next, Tail(items))

NoDedup(s) == s
\* list(dict.fromkeys(s)): the first occurrence of each value, in order
RECURSIVE DedupKeepFirst(_)
DedupKeepFirst(s) ==
  IF s = <<>> THEN <<>>
  ELSE Only({IF s[Len(s)] \in ToSet(init) THEN init ELSE Append(init, s[Len(s)])
             : init \in {DedupKeepFirst(SubSeq(s, 1, Len(s) - 1))}})

\* if not result['title']: result['title'] = nested.get('title', '')
KeepFirst(old, new) == IF old # <<>> THEN old ELSE new
\* result['title'] = value, result['video'] = value: the key's own value is
\* stored whatever was stored before
AssignDirect(old, new) == new

\* if key_lower in title_keys and isinstance(value, str): result['title'] = value
OwnTitle(result, key_lower, value) ==
  IF key_lower \in title_keys /\ value.t = "str"
  THEN [result EXCEPT !.title = AssignDirect(@, value.s)] ELSE result

\* if key_lower in video_keys and isinstance(value, str): result['video'] = value
OwnVideo(result, key_lower, value) ==
  IF key_lower \in video_keys /\ value.t = "str"
  THEN [result EXCEPT !.video = AssignDirect(@, value.s)] ELSE result

\* if any(k in key_lower for k in main_keys): a URL or a list of images
OwnMain(result, key_lower, value) ==
  IF ~KeyHas(key_lower, main_keys) THEN result
  ELSE IF value.t = "str"
    THEN (IF _is_valid_product_image(value.s)
          THEN [result EXCEPT !.main = Append(@, value.s)] ELSE result)
  ELSE IF value.t = "arr" THEN AppendListed(result, "main", value.kids)
  ELSE result

\* if any(k in key_lower for k in detail_keys) and isinstance(value, list)
OwnDetail(result, key_lower, value) ==
  IF KeyHas(key_lower, detail_keys) /\ value.t = "arr"
  THEN AppendListed(result, "detail", value.kids) ELSE result

\* if any(k in key_lower for k in image_keys) and isinstance(value, list)
OwnGeneric(result, key_lower, value) ==
  IF KeyHas(key_lower, image_keys) /\ value.t = "arr"
  THEN AppendGeneric(result, value.kids) ELSE result

\* the five ifs on one (key, value) of a dict, before the recursion
OwnFields(result, key, value) ==
  OwnGeneric(OwnDetail(OwnMain(OwnVideo(OwnTitle(result, Lower(key), value),
                                        Lower(key), value),
                               Lower(key), value),
                       Lower(key), value),
             Lower(key), value)

ExtractDepthBound == 10
DeepAtBound(depth, bound) == depth >= bound
\* if depth > 10: return None / if depth > 15: return None
TooDeep(depth, bound) == depth > bound

\* the merge of a nested dict's result into the result of a dict
MergeNested(result, nested) ==
  [main |-> result.main \o nested.main,
   detail |-> result.detail \o nested.detail,
   title |-> KeepFirst(result.title, nested.title),
   video |-> KeepFirst(result.video, nested.video)]

\* the merge into the result of a list: the images only
MergeListed(result, nested) ==
  [result EXCEPT !.main = @ \o nested.main, !.detail = @ \o nested.detail]

\* if nested: the merge of the branch of t; nested is <<>> for None
Merge(t, result, nested) ==
  IF nested = <<>> THEN result
  ELSE IF t = "obj" THEN MergeNested(result, nested[1]) ELSE MergeListed(result, nested[1])

\* result['main'] or result['detail']
AnyImage(result) == result.main # <<>> \/ result.detail # <<>>

RECURSIVE _extract_images_from_json(_, _)
RECURSIVE ExtractItems(_, _, _, _)
\* the two for loops: over data.items() of a dict, over the items of a list;
\* the nested result and the merged result are each computed once
ExtractItems(t, kids, depth, result) ==
  IF kids = <<>> THEN result
  ELSE CHOOSE returned \in
         {ExtractItems(t, Tail(kids), depth, merged)
          : merged \in
              {Merge(t,
                     IF t = "obj" THEN OwnFields(result, Head(kids).k, Head(kids).v)
                     ELSE result,
                     nested)
               : nested \in {IF IsContainer(Head(kids).v)
                             THEN _extract_images_from_json(Head(kids).v, depth + 1)
                             ELSE <<>>}}} : TRUE

\* return result if result['main'] or result['detail'] else None; None is <<>>
_extract_images_from_json(data, depth) ==
  IF TooDeep(depth, ExtractDepthBound) THEN <<>>
  ELSE SelectSeq(<<[(IF IsContainer(data)
                     THEN ExtractItems(data.t, data.kids, depth, EmptyMined)
                     ELSE EmptyMined)
                    EXCEPT !.main = DedupKeepFirst(@), !.detail = DedupKeepFirst(@)]>>,
                 AnyImage)

\* str(value): the keys and the texts of the subtree, in order
RECURSIVE Serialized(_)
RECURSIVE SerializedItems(_)
SerializedItems(kids) ==
  IF kids = <<>> THEN <<>>
  ELSE Head(kids).k \o Serialized(Head(kids).v) \o SerializedItems(Tail(kids))
Serialized(node) == IF node.t = "str" THEN node.s ELSE SerializedItems(node.kids)

\* the tokens in which 'images', 'img', 'pic' or 'gallery' occurs
ImageTermTokens ==
  {"images", "imgs", "img", "pic", "gallery", "pic_list",
   "ecombdimg.com", "byteimg.com", "douyinpic.com"}
\* any(k in str(value).lower() for k in ['images', 'img', 'pic', 'gallery'])
MentionsImages(value) == HasToken(Lower(Serialized(value)), ImageTermTokens)

container_keys ==
  {<<"product">>, <<"goods">>, <<"item">>, <<"productinfo">>, <<"goodsinfo">>, <<"data">>}
RouterDepthBound == 15

\* a (key, value) of a dict that the first loop returns: a container key whose
\* value is a dict mentioning images
IsProductRecord(t, item) ==
  /\ t = "obj"
  /\ Lower(item.k) \in container_keys
  /\ item.v.t = "obj"
  /\ MentionsImages(item.v)

RECURSIVE FindHits(_, _)
RECURSIVE FindItems(_, _, _)
\* the two for loops: the records at which they return, in the order in which
\* they come to them (a record is not searched further)
FindItems(t, kids, depth) ==
  IF kids = <<>> THEN <<>>
  ELSE (IF IsProductRecord(t, Head(kids)) THEN <<Head(kids).v>>
        ELSE IF IsContainer(Head(kids).v) THEN FindHits(Head(kids).v, depth + 1)
        ELSE <<>>)
         \o FindItems(t, Tail(kids), depth)

FindHits(data, depth) ==
  IF TooDeep(depth, RouterDepthBound) THEN <<>>
  ELSE IF IsContainer(data) THEN FindItems(data.t, data.kids, depth)
  ELSE <<>>

\* the loops return at the first record they come to; None is <<>>
_find_product_in_router(data, depth) ==
  IF FindHits(data, depth) = <<>> THEN <<>> ELSE <<Head(FindHits(data, depth))>>

\* lines 343-357: the product record of _ROUTER_DATA, then its images
targeted_mining(router_data) ==
  LET product_data == _find_product_in_router(router_data, 0)
  IN IF product_data = <<>> THEN <<>> ELSE _extract_images_from_json(product_data[1], 0)

Img1 == <<"https:", "/", "/", "p3-aio.", "ecombdimg.com", "/", "desc", "/", "b1", ".jpg">>
\* {"a": {"item": {"images": [Img1]}}}
ScenarioRouter ==
  Obj(<<KV(<<"a">>, Obj(<<KV(<<"item">>, Obj(<<KV(<<"images">>, Arr(<<Str(Img1)>>))>>))>>))>>)
\* {"item": {"detail_images": [Img1]}}
DetailRouter ==
  Obj(<<KV(<<"item">>, Obj(<<KV(<<"detail_", "images">>, Arr(<<Str(Img1)>>))>>))>>)
\* {"props": {"title": "desc"}}
NoImageState == Obj(<<KV(<<"props">>, Obj(<<KV(<<"title">>, Str(<<"desc">>))>>))>>)

\* the static page: the HTTP outcome, the JSON of the window._ROUTER_DATA and
\* window.__INITIAL_STATE__ scripts (<<>>: no such script), the regex matches
StaticResps ==
  {[fails |-> TRUE, status_code |-> 0, router |-> <<>>, state |-> <<>>, matches |-> {}]}
    \cup [fails : {FALSE}, status_code : {200, 404},
          router : {<<>>, <<ScenarioRouter>>, <<DetailRouter>>},
          state : {<<>>, <<NoImageState>>},
          matches : {S \in SUBSET ImageCandidates : Cardinality(S) <= 2}]

\* the blocks the code mines, in the order it visits them: _ROUTER_DATA in
\* targeted mode, then the json_patterns in generic mode (_ROUTER_DATA again,
\* __INITIAL_STATE__); a block without images yields nothing
MinedBlocks(resp) ==
  (IF resp.router = <<>> THEN <<>>
   ELSE targeted_mining(resp.router[1]) \o _extract_images_from_json(resp.router[1], 0))
    \o (IF resp.state = <<>> THEN <<>> ELSE _extract_images_from_json(resp.state[1], 0))

RECURSIVE Extend(_, _)
\* main_images.extend(...) / detail_images.extend(...) over the mined blocks
Extend(mined, field) ==
  IF mined = <<>> THEN <<>>
  ELSE (IF field = "main" THEN Head(mined).main ELSE Head(mined).detail)
         \o Extend(Tail(mined), field)

\* main_images / detail_images after the loop over the mined blocks
MinedLists(mined) == [main |-> Extend(mined, "main"), detail |-> Extend(mined, "detail")]

\* lines 377-422: the regex fallback runs only when the JSON gave no image
StaticOutcomes(product_id, lists, all_images) ==
  IF lists.main # <<>> \/ lists.detail # <<>>
  THEN ProductOutcomes(product_id, ToSet(lists.main), ToSet(lists.detail))
  ELSE UNION {LET c == Classify(order, {u \in all_images : IsMainStatic(u)})
              IN ProductOutcomes(product_id, ToSet(c.main), ToSet(c.detail))
              : order \in Perms(all_images)}

_parse_html(url, product_id, resp) ==
  IF resp.fails THEN {Swallow(Raise("http"))}
  ELSE IF resp.status_code # 200 THEN {NoneResult}
  ELSE StaticOutcomes(product_id, MinedLists(MinedBlocks(resp)), accepted_static(resp.matches))

(* ---------------------------------------------------------------------- *)
(* State                                                                   *)
(* ---------------------------------------------------------------------- *)
VARIABLES
  calls,    \* the resolution calls in progress: the locals of each parse()
  profile,  \* the calls holding a browser session open on ~/.haohuo_browser_data
  selIn,    \* the aweme_detail handed to _get_no_watermark_url
  selOut,   \* what it returned or raised
  selPc,    \* "ready" | "returned" | "raised" | "off"
  input,    \* the argument of the function applied on its own (a URL, a JSON value, a page)
  output    \* what its applications returned so far

vars == <<calls, profile, selIn, selOut, selPc, input, output>>

Calls == 1..NumCalls

At(stage, strategy) == [stage |-> stage, strategy |-> strategy]

\* the locals of a parse() call. log is the trace of the strategies it has
\* started, each with how it ended (outcome, the exception's reason, the object
\* the strategy produced); result is <<>> or <<the returned object>>,
\* error is <<>> or <<the exception that left parse>>
NewCall(kind, url) ==
  [kind |-> kind, url |-> url, real_url |-> url, id |-> <<>>,
   pc |-> At(IF kind = "video" THEN "resolve" ELSE "begin", "none"),
   log |-> <<>>, result |-> <<>>, error |-> <<>>]
IdleCall == [NewCall("video", <<>>) EXCEPT !.pc = At("idle", "none")]

Error(type, msg, attempts) == [type |-> type, msg |-> msg, attempts |-> attempts]

Returned(call, value) == [call EXCEPT !.result = value, !.pc = At("returned", "none")]
Raised(call, err) == [call EXCEPT !.error = <<err>>, !.pc = At("raised", "none")]

Started(call, s) ==
  [call EXCEPT !.log = Append(@, [strategy |-> s, outcome |-> "running",
                                    reason |-> "none", value |-> <<>>]),
               !.pc = At("wait", s)]

OutcomeName(o) ==
  CASE o.kind = "value" -> "success"
    [] o.kind = "none" -> "empty"
    [] OTHER -> "error"
ReasonOf(o) == IF o.attempts # <<>> THEN o.attempts[1].reason ELSE o.reason

Finished(call, o) ==
  [call EXCEPT !.log[Len(call.log)] =
     [@ EXCEPT !.outcome = OutcomeName(o), !.reason = ReasonOf(o), !.value = o.value]]

(* ---------------------------------------------------------------------- *)
(* parse(): the strategy chain                                             *)
(* ---------------------------------------------------------------------- *)
StrategyAfterSwapped(s) ==
  CASE s = "share_page" -> "web_api"
    [] s = "web_api" -> "mobile_api"
    [] s = "mobile_api" -> "webpage"
    [] s = "playwright" -> "static_html"
    [] OTHER -> "exhausted"
\* the order in which parse() tries the strategies
StrategyAfter(s) ==
  CASE s = "share_page" -> "mobile_api"
    [] s = "mobile_api" -> "web_api"
    [] s = "web_api" -> "webpage"
    [] s = "playwright" -> "static_html"
    [] OTHER -> "exhausted"

ReturnsAlways(o) == o.kind # "caught"
\* if result: return result; a VideoInfo or ProductInfo object is always truthy
ReturnsResult(o) == o.kind = "value"

\* raise ValueError("无法获取商品信息，请检查链接是否正确")
product_exhausted == Error("ValueError", "cannot get product information", <<>>)

\* video_id = self.extract_video_id(real_url), then the first API strategy
ExtractThen(call, next) ==
  LET video_id == extract_video_id(call.real_url)
  IN IF video_id = <<>>
     THEN Raised(call, Error("ValueError", "Cannot extract video ID from URL", <<>>))
     ELSE [call EXCEPT !.id = video_id, !.pc = At("start", next)]

Proceed(call, s) ==
  IF StrategyAfter(s) = "exhausted" THEN Raised(call, product_exhausted)
  ELSE IF s = "share_page" THEN ExtractThen(call, StrategyAfter(s))
  ELSE [call EXCEPT !.pc = At("start", StrategyAfter(s))]

\* what parse() does with the outcome o of strategy s
Settle(call, s, o) ==
  IF o.kind = "raise" THEN Raised(Finished(call, o), Error("Exception", o.reason, o.attempts))
  ELSE IF ReturnsResult(o) THEN Returned(Finished(call, o), o.value)
  ELSE Proceed(Finished(call, o), s)

Update(c, call) ==
  /\ calls' = [calls EXCEPT ![c] = call]
  /\ UNCHANGED <<selIn, selOut, selPc, input, output>>

(* ---------------------------------------------------------------------- *)
(* DouyinVideoParser.parse                                                 *)
(* ---------------------------------------------------------------------- *)
\* the short-link resolution and the share-page test
Resolve(c) ==
  /\ calls[c].pc = At("resolve", "none")
  /\ \E r \in (IF IsShortLink(calls[c].url) THEN RedirectResps
               ELSE {[fails |-> FALSE, location |-> calls[c].url]}) :
       Update(c,
         IF r.fails
         THEN Raised(calls[c], Error("Exception", "Failed to resolve short URL", <<>>))
         ELSE LET call == [calls[c] EXCEPT !.real_url = r.location]
              IN IF IsSharePage(call.real_url)
                 THEN [call EXCEPT !.pc = At("start", "share_page")]
                 ELSE ExtractThen(call, StrategyAfter("share_page")))
  /\ UNCHANGED profile

\* a strategy issues its request (for playwright: starts the browser launch)
StartStrategy(c) ==
  /\ calls[c].pc.stage = "start"
  /\ Update(c, Started(calls[c], calls[c].pc.strategy))
  /\ UNCHANGED profile

FinishSharePage(c) ==
  /\ calls[c].pc = At("wait", "share_page")
  /\ \E resp \in ShareResps :
       Update(c, Settle(calls[c], "share_page",
                        Swallow(_parse_from_share_page(calls[c].real_url, resp))))
  /\ UNCHANGED profile

FinishMobileApi(c) ==
  /\ calls[c].pc = At("wait", "mobile_api")
  /\ \E resp \in MobileResps :
       Update(c, Settle(calls[c], "mobile_api",
                        Swallow(_parse_from_mobile_api(calls[c].id, resp))))
  /\ UNCHANGED profile

FinishWebApi(c) ==
  /\ calls[c].pc = At("wait", "web_api")
  /\ \E resp \in WebApiResps :
       Update(c, Settle(calls[c], "web_api", Swallow(web_api(calls[c].id, resp))))
  /\ UNCHANGED profile

\* return await self._parse_from_webpage(video_id): nothing is caught here
FinishWebpage(c) ==
  /\ calls[c].pc = At("wait", "webpage")
  /\ \E resp \in WebPageResps :
       Update(c, Settle(calls[c], "webpage", _parse_from_webpage(calls[c].id, resp)))
  /\ UNCHANGED profile

(* ---------------------------------------------------------------------- *)
(* DouyinProductParser.parse                                               *)
(* ---------------------------------------------------------------------- *)
ProductBegin(c) ==
  /\ calls[c].pc = At("begin", "none")
  /\ LET pid == extract_product_id(calls[c].url)
     IN Update(c,
          IF pid.ok
          THEN [calls[c] EXCEPT !.id = pid.id, !.pc = At("start", "playwright")]
          ELSE Raised(calls[c], Error("ValueError", "cannot extract product id", <<>>)))
  /\ UNCHANGED profile

\* launch_persistent_context(user_data_dir, ...): nothing in the code waits for
\* or excludes another call's session; the launch opens a session or raises
PwLaunch(c) ==
  /\ calls[c].pc = At("wait", "playwright")
  /\ \E opened \in BOOLEAN :
       IF opened
       THEN /\ Update(c, [calls[c] EXCEPT !.pc = At("session", "playwright")])
            /\ profile' = profile \cup {c}
       ELSE /\ Update(c, Settle(calls[c], "playwright", Swallow(Raise("launch"))))
            /\ UNCHANGED profile

\* goto ... page.content(), context.close() (or the exit of `async with` on an
\* exception), then the harvest of the captured HTML
PwRender(c) ==
  /\ calls[c].pc = At("session", "playwright")
  /\ \E resp \in RenderResps :
       \E o \in harvest_rendered(
                  IF calls[c].id = <<"SHORT_LINK">> THEN <<"unknown">> ELSE calls[c].id, resp) :
         Update(c, Settle(calls[c], "playwright", o))
  /\ profile' = profile \ {c}

FinishStaticHtml(c) ==
  /\ calls[c].pc = At("wait", "static_html")
  /\ \E resp \in StaticResps :
       \E o \in _parse_html(calls[c].url, calls[c].id, resp) :
         Update(c, Settle(calls[c], "static_html", o))
  /\ UNCHANGED profile

(* ---------------------------------------------------------------------- *)
(* Specification of one resolution call, of a video or of a product link   *)
(* ---------------------------------------------------------------------- *)
SelectorOff ==
  /\ selIn = [video |-> [play_addr |-> <<>>, bit_rate |-> <<>>, download_addr |-> <<>>]]
  /\ selOut = CannotFindVideoUrl
  /\ selPc = "off"

FnOff ==
  /\ input = <<>>
  /\ output = <<>>

Init ==
  /\ \E call \in {NewCall("video", u) : u \in VideoUrls}
                  \cup {NewCall("product", u) : u \in ProductUrls} :
       calls = [c \in Calls |-> IF c = 1 THEN call ELSE IdleCall]
  /\ profile = {}
  /\ SelectorOff
  /\ FnOff

Next ==
  \E c \in Calls :
    \/ Resolve(c)
    \/ StartStrategy(c)
    \/ FinishSharePage(c)
    \/ FinishMobileApi(c)
    \/ FinishWebApi(c)
    \/ FinishWebpage(c)
    \/ ProductBegin(c)
    \/ PwLaunch(c)
    \/ PwRender(c)
    \/ FinishStaticHtml(c)

Spec == Init /\ [][Next]_vars

(* ---------------------------------------------------------------------- *)
(* Specification of NumCalls concurrent product calls                      *)
(* (asyncio tasks awaiting parse_product on one event loop)                *)
(* ---------------------------------------------------------------------- *)
ConcInit ==
  /\ calls \in [Calls -> {NewCall("product", u) : u \in ProductUrls}]
  /\ profile = {}
  /\ SelectorOff
  /\ FnOff

ConcNext ==
  \E c \in Calls :
    \/ ProductBegin(c)
    \/ StartStrategy(c)
    \/ PwLaunch(c)
    \/ PwRender(c)
    \/ FinishStaticHtml(c)

ConcSpec == ConcInit /\ [][ConcNext]_vars

(* ---------------------------------------------------------------------- *)
(* Specification of the selector on its own                                *)
(* ---------------------------------------------------------------------- *)
SelInit ==
  /\ selIn \in [video : VideoParts]
  /\ selOut = CannotFindVideoUrl
  /\ selPc = "ready"
  /\ calls = [c \in Calls |-> IdleCall]
  /\ profile = {}
  /\ input = <<>>
  /\ output = <<>>

Select ==
  /\ selPc = "ready"
  /\ selOut' = _get_no_watermark_url(selIn)
  /\ selPc' = IF selOut'.ok THEN "returned" ELSE "raised"
  /\ UNCHANGED <<selIn, calls, profile, input, output>>

SelNext == Select

SelSpec == SelInit /\ [][SelNext]_vars

(* ---------------------------------------------------------------------- *)
(* Specification of _is_valid_product_image on its own                     *)
(* ---------------------------------------------------------------------- *)
Idle ==
  /\ calls = [c \in Calls |-> IdleCall]
  /\ profile = {}
  /\ SelectorOff

UrlHosts ==
  {<<"https:", "/", "/", "p3-aio.", "ecombdimg.com">>,
   <<"https:", "/", "/", "p3.", "BYTEIMG.COM">>,
   <<"https:", "/", "/", "cdn.", "example.com">>,
   <<"https:", "/", "/", "a.co">>}
PathTokens == ExcludePatterns \cup {"ICON", "Logo", "a", "abcdefghijklmnop"}
UrlExts == {<<>>, <<".jpg">>, <<".JPG">>, <<".gif">>, <<".jpg", ".exe">>}
UrlQueries == {<<>>, <<"?", "ref=", "byteimg.com">>}
\* scheme://host/path[ext][?query]
ImageUrls ==
  {h \o <<"/", p>> \o e \o q : h \in UrlHosts, p \in PathTokens, e \in UrlExts, q \in UrlQueries}

ValidInit ==
  /\ input \in ImageUrls
  /\ output = <<>>
  /\ Idle

Validate ==
  /\ output = <<>>
  /\ output' = <<_is_valid_product_image(input)>>
  /\ UNCHANGED <<input, calls, profile, selIn, selOut, selPc>>

ValidNext == Validate

ValidSpec == ValidInit /\ [][ValidNext]_vars

(* ---------------------------------------------------------------------- *)
(* Specification of the two miners on their own                            *)
(* ---------------------------------------------------------------------- *)
\* deepest nesting of the JSON values handed to the miners
MaxNest == 17
\* longest image list in them
MaxListed == 6

\* node under n dicts {"a": ...}
RECURSIVE Nest(_, _)
Nest(n, node) == IF n = 0 THEN node ELSE Obj(<<KV(<<"a">>, Nest(n - 1, node))>>)

NumberedImg(i) ==
  <<"https:", "/", "/", "p3-aio.", "ecombdimg.com", "/", "desc", "/",
    <<"b1", "b2", "b3", "b4", "b5", "b6", "b7", "b8">>[i], ".jpg">>
FirstImgs(n) == [i \in 1..n |-> NumberedImg(i)]
VideoSrc1 == <<"https:", "/", "/", "cdn", "/", "v1", ".mp4">>
VideoSrc2 == <<"https:", "/", "/", "cdn", "/", "v2", ".mp4">>

\* {"images": [urls...]}
ImagesObj(urls) == Obj(<<KV(<<"images">>, Arr([i \in 1..Len(urls) |-> Str(urls[i])]))>>)
\* {"item": node}
ItemOf(node) == Obj(<<KV(<<"item">>, node)>>)

\* image lists of at most 5 valid URLs (one with a repeated URL, one with an icon)
ShortLists == {FirstImgs(1), FirstImgs(MainCap), <<Img1, Img1>>, <<IconImg, Img1>>}
UrlLists == ShortLists \cup {FirstImgs(MaxListed)}

\* {"title": "A", "video": V1, "name": "B", "video_url": V2, "images": [Img1]}
TwoTitles ==
  Obj(<<KV(<<"title">>, Str(<<"A">>)), KV(<<"video">>, Str(VideoSrc1)),
        KV(<<"name">>, Str(<<"B">>)), KV(<<"video", "_url">>, Str(VideoSrc2)),
        KV(<<"images">>, Arr(<<Str(Img1)>>))>>)
\* {"x": {"title": "A", "images": [Img1]}, "title": "B"}
NestedThenDirect ==
  Obj(<<KV(<<"x">>, Obj(<<KV(<<"title">>, Str(<<"A">>)), KV(<<"images">>, Arr(<<Str(Img1)>>))>>)),
        KV(<<"title">>, Str(<<"B">>))>>)
\* {"x": {"title": "A", "images": [Img1]}, "y": {"title": "B", "images": [Img1]}}
TwoNested ==
  Obj(<<KV(<<"x">>, Obj(<<KV(<<"title">>, Str(<<"A">>)), KV(<<"images">>, Arr(<<Str(Img1)>>))>>)),
        KV(<<"y">>, Obj(<<KV(<<"title">>, Str(<<"B">>)), KV(<<"images">>, Arr(<<Str(Img1)>>))>>))>>)
\* {"list": [{"title": "A", "images": [Img1]}]}
TitleInArray ==
  Obj(<<KV(<<"list">>,
           Arr(<<Obj(<<KV(<<"title">>, Str(<<"A">>)), KV(<<"images">>, Arr(<<Str(Img1)>>))>>)>>))>>)

Payloads ==
  {ItemOf(ImagesObj(l)) : l \in UrlLists}
    \cup {ImagesObj(<<Img1>>),
          \* {"Item": {"images": [{"url": Img1}, {"src": MainImg}]}}
          Obj(<<KV(<<"Item">>, Obj(<<KV(<<"images">>,
                  Arr(<<Obj(<<KV(<<"url">>, Str(Img1))>>), Obj(<<KV(<<"src">>, Str(MainImg))>>)>>))>>))>>),
          \* {"item": {"detail_images": [Img1]}}
          ItemOf(Obj(<<KV(<<"detail_", "images">>, Arr(<<Str(Img1)>>))>>)),
          \* {"item": {"cover": MainImg, "count": 3}}
          ItemOf(Obj(<<KV(<<"cover">>, Str(MainImg)), KV(<<"count">>, Num)>>)),
          \* {"item": {"zzz": "x"}}
          ItemOf(Obj(<<KV(<<"zzz">>, Str(<<"x">>))>>)),
          TwoTitles, NestedThenDirect, TwoNested, TitleInArray}

\* the payloads under 0..MaxNest dicts, and {"data": ...} around a nested image list
Trees ==
  {Nest(n, p) : n \in 0..MaxNest, p \in Payloads}
    \cup {Obj(<<KV(<<"data">>, Nest(n, ImagesObj(<<Img1>>)))>>) : n \in 0..MaxNest}

NotRun == [extracted |-> <<>>, found |-> <<>>, targeted |-> <<>>]

MineInit ==
  /\ input \in Trees
  /\ output = NotRun
  /\ Idle

\* _extract_images_from_json(data)
Extract ==
  /\ output.extracted = <<>>
  /\ output' = [output EXCEPT !.extracted = <<_extract_images_from_json(input, 0)>>]
  /\ UNCHANGED <<input, calls, profile, selIn, selOut, selPc>>

\* _find_product_in_router(router_data)
Find ==
  /\ output.found = <<>>
  /\ output' = [output EXCEPT !.found = <<_find_product_in_router(input, 0)>>]
  /\ UNCHANGED <<input, calls, profile, selIn, selOut, selPc>>

\* the targeted mining of _parse_html
Targeted ==
  /\ output.targeted = <<>>
  /\ output' = [output EXCEPT !.targeted = <<targeted_mining(input)>>]
  /\ UNCHANGED <<input, calls, profile, selIn, selOut, selPc>>

MineNext == Extract \/ Find \/ Targeted

MineSpec == MineInit /\ [][MineNext]_vars

(* ---------------------------------------------------------------------- *)
(* Specification of the regex harvest, run repeatedly on one text          *)
(* ---------------------------------------------------------------------- *)
\* harvests of the same text
MaxRuns == 2

ForeignJpg == <<"https:", "/", "/", "cdn.", "example.com", "/", "a", ".jpg">>
ForeignUpperJpg == <<"https:", "/", "/", "cdn.", "example.com", "/", "a", ".JPG">>
SnssdkImg == <<"https:", "/", "/", "p3.", "snssdk.com", "/", "obj", "/", "abcdefghijklmnop">>
SixDetail == {NumberedImg(i) : i \in 1..(PromoteCount + 1)}
CoverImg == <<"https:", "/", "/", "p3-aio.", "ecombdimg.com", "/", "cover", "/", "e", ".jpg">>
OriginImg == <<"https:", "/", "/", "p3-aio.", "ecombdimg.com", "/", "origin", "/", "d", ".jpg">>
UrlPool ==
  {MainImg, DetailImg, DetailImgSemi, IconImg, ForeignJpg, ForeignUpperJpg, SnssdkImg,
   NumberedImg(1), NumberedImg(2), CoverImg, OriginImg}
\* a text, as the URLs that occur in it
Htmls == {S \in SUBSET UrlPool : Cardinality(S) <= 2} \cup {SixDetail}

\* the hosts of the eight CDN patterns of the rendered-DOM strategy
RenderedHostTokens ==
  {"ecombdimg.com", "bytetos.com", "douyinpic.com", "byteimg.com", "pstatp.com",
   "snssdk.com", "toutiaostatic.com", "feishucdn.com"}
\* re.findall(pattern, html) over img_patterns: case-sensitive
rendered_matches(html) ==
  {u \in html : HasToken(u, RenderedHostTokens) \/ HasToken(u, ImageExts)}
\* re.findall(pattern, html, re.IGNORECASE) over the five patterns of _parse_html
static_matches(html) ==
  {u \in html : HasToken(Lower(u), BytedanceCdns) \/ HasToken(Lower(u), ImageExts)}

\* one harvest: the accepted set and the two lists, as list(set(...)) hands them on
Runs(path, all_images, mainOnes) ==
  {LET c == Classify(order, mainOnes)
   IN [path |-> path, all_images |-> all_images,
       main_images |-> ToSet(c.main), detail_images |-> ToSet(c.detail)]
   : order \in Perms(all_images)}

HarvestInit ==
  /\ input \in Htmls
  /\ output = <<>>
  /\ Idle

\* lines 243-284 of _parse_with_playwright
HarvestRendered ==
  /\ Len(output) < MaxRuns
  /\ LET all_images == accepted_rendered(rendered_matches(input))
     IN \E run \in Runs("rendered", all_images, {u \in all_images : IsMainRendered(u)}) :
          output' = Append(output, run)
  /\ UNCHANGED <<input, calls, profile, selIn, selOut, selPc>>

\* lines 377-405 of _parse_html
HarvestStatic ==
  /\ Len(output) < MaxRuns
  /\ LET all_images == accepted_static(static_matches(input))
     IN \E run \in Runs("static", all_images, {u \in all_images : IsMainStatic(u)}) :
          output' = Append(output, run)
  /\ UNCHANGED <<input, calls, profile, selIn, selOut, selPc>>

HarvestNext == HarvestRendered \/ HarvestStatic

HarvestSpec == HarvestInit /\ [][HarvestNext]_vars

(* ---------------------------------------------------------------------- *)
(* Specification of the video link normalizer against one HTTP server      *)
(* ---------------------------------------------------------------------- *)
\* redirects the HTTP client follows before it gives up
MaxHops == 3

ShortVideoLink2 == <<"https:", "/", "/", "v.", "douyin.com", "/", "xyz">>
\* a canonical link that mentions the short-link host in its query
TaggedVideoLink == CanonicalVideoLink \o <<"?", "from=", "v.", "douyin.com">>
Unreachable == <<"unreachable">>
Redirecting == {ShortVideoLink, ShortVideoLink2, TaggedVideoLink}
Landing == {CanonicalVideoLink, ModalVideoLink, UserPageLink, SharePageLink}
\* a deterministic server: each of these URLs answers with a redirect to a URL,
\* with a page (<<>>), or not at all; every other URL answers with a page
HopTables == [Redirecting -> Redirecting \cup Landing \cup {<<>>, Unreachable}]

FollowOnce(url, hops, n) ==
  IF url \notin DOMAIN hops \/ hops[url] = <<>> THEN [fails |-> FALSE, location |-> url]
  ELSE IF hops[url] = Unreachable THEN [fails |-> TRUE, location |-> <<>>]
  ELSE [fails |-> FALSE, location |-> hops[url]]
\* client.get(url, follow_redirects=True): response.url is the URL that answered with a page
RECURSIVE Follow(_, _, _)
Follow(url, hops, n) ==
  IF url \notin DOMAIN hops \/ hops[url] = <<>> THEN [fails |-> FALSE, location |-> url]
  ELSE IF hops[url] = Unreachable \/ n = 0 THEN [fails |-> TRUE, location |-> <<>>]
  ELSE Follow(hops[url], hops, n - 1)

get_real_url(short_url, hops) == Follow(short_url, hops, MaxHops)

\* lines 119-123 and 134 of parse: the short-link test, get_real_url, extract_video_id
Normalize(url, hops) ==
  LET r == IF IsShortLink(url) THEN get_real_url(url, hops)
           ELSE [fails |-> FALSE, location |-> url]
  IN [ok |-> ~r.fails, real_url |-> r.location,
      video_id |-> IF r.fails THEN <<>> ELSE extract_video_id(r.location)]

NormInit ==
  /\ input \in [url : Redirecting \cup Landing, hops : HopTables]
  /\ output = <<>>
  /\ Idle

\* the link the user gave
NormalizeLink ==
  /\ output = <<>>
  /\ output' = <<Normalize(input.url, input.hops)>>
  /\ UNCHANGED <<input, calls, profile, selIn, selOut, selPc>>

\* the canonical URL it resolved to, given as a link
NormalizeResolved ==
  /\ Len(output) = 1
  /\ output[1].ok
  /\ output' = Append(output, Normalize(output[1].real_url, input.hops))
  /\ UNCHANGED <<input, calls, profile, selIn, selOut, selPc>>

NormNext == NormalizeLink \/ NormalizeResolved

NormSpec == NormInit /\ [][NormNext]_vars

(* ---------------------------------------------------------------------- *)
(* Specification of the HTTP requests of DouyinVideoParser.parse:          *)
(* which client, with which headers, issues each of them                   *)
(* ---------------------------------------------------------------------- *)
\* a headers dict: the set of its (name, value) items
Header(name, value) == [name |-> name, value |-> value]
DesktopAgent == <<"Mozilla", "/", "5.0", "Windows">>
MobileAgent == <<"Mozilla", "/", "5.0", "iPhone">>
DouyinReferer == <<"https:", "/", "/", "www.", "douyin.com", "/">>

\* the cookie argument of __init__: <<>> is None, <<s>> the str s
CookieArgs == {<<>>, <<<<>>>>, <<<<"sid=", "1">>>>, <<<<"sid=", "2">>>>}
\* if cookie:
Truthy(cookie) == cookie # <<>> /\ cookie[1] # <<>>

\* self.headers, the headers of self.client
headers(cookie) ==
  {Header("User-Agent", DesktopAgent), Header("Referer", DouyinReferer),
   Header("Accept-Language", <<"zh-CN">>)}
    \cup (IF Truthy(cookie) THEN {Header("Cookie", cookie[1])} ELSE {})

\* the mobile_headers of get_real_url, _parse_from_share_page and
\* _parse_from_mobile_api: the headers of the client each of them creates
mobile_headers(site) ==
  {Header("User-Agent", MobileAgent)}
    \cup (IF site = "mobile_api" THEN {Header("Referer", DouyinReferer)} ELSE {})

\* the headers of the client that issues the request of a site
ClientHeaders(site, cookie) ==
  IF site \in {"web_api", "webpage"} THEN headers(cookie) ELSE mobile_headers(site)

\* client.get(...) at a site of a parse() that has reached it
Sent(out, site, cookie) ==
  [out EXCEPT !.sent = Append(@, [site |-> site, headers |-> ClientHeaders(site, cookie)])]

\* after the share-page test: extract_video_id, then the mobile API
AfterSharePage(out) ==
  [out EXCEPT !.pc = IF extract_video_id(out.real_url) = <<>> THEN "raised"
                     ELSE StrategyAfter("share_page")]

HeaderInit ==
  /\ input \in [cookie : CookieArgs, url : VideoUrls]
  /\ output = [pc |-> "resolve", real_url |-> input.url, sent |-> <<>>]
  /\ Idle

\* real_url = await self.get_real_url(url) for a short link, then the
\* share-page test
SendRedirect ==
  /\ output.pc = "resolve"
  /\ \E r \in (IF IsShortLink(input.url) THEN RedirectResps
               ELSE {[fails |-> FALSE, location |-> input.url]}) :
       LET out == IF IsShortLink(input.url) THEN Sent(output, "redirect", input.cookie)
                  ELSE output
           landed == [out EXCEPT !.real_url = r.location]
       IN output' = IF r.fails THEN [out EXCEPT !.pc = "raised"]
                    ELSE IF IsSharePage(r.location) THEN [landed EXCEPT !.pc = "share_page"]
                    ELSE AfterSharePage(landed)
  /\ UNCHANGED <<input, calls, profile, selIn, selOut, selPc>>

\* the request of a strategy; the strategy returns a result or parse goes on
AfterRequest(site, returns) ==
  LET out == Sent(output, site, input.cookie)
  IN IF returns THEN [out EXCEPT !.pc = "returned"]
     ELSE IF site = "share_page" THEN AfterSharePage(out)
     ELSE IF StrategyAfter(site) = "exhausted" THEN [out EXCEPT !.pc = "raised"]
     ELSE [out EXCEPT !.pc = StrategyAfter(site)]

SendSharePage ==
  /\ output.pc = "share_page"
  /\ \E returns \in BOOLEAN : output' = AfterRequest("share_page", returns)
  /\ UNCHANGED <<input, calls, profile, selIn, selOut, selPc>>

SendMobileApi ==
  /\ output.pc = "mobile_api"
  /\ \E returns \in BOOLEAN : output' = AfterRequest("mobile_api", returns)
  /\ UNCHANGED <<input, calls, profile, selIn, selOut, selPc>>

SendWebApi ==
  /\ output.pc = "web_api"
  /\ \E returns \in BOOLEAN : output' = AfterRequest("web_api", returns)
  /\ UNCHANGED <<input, calls, profile, selIn, selOut, selPc>>

\* return await self._parse_from_webpage(video_id): a result or an exception
SendWebpage ==
  /\ output.pc = "webpage"
  /\ \E returns \in BOOLEAN : output' = AfterRequest("webpage", returns)
  /\ UNCHANGED <<input, calls, profile, selIn, selOut, selPc>>

HeaderNext ==
  \/ SendRedirect
  \/ SendSharePage
  \/ SendMobileApi
  \/ SendWebApi
  \/ SendWebpage

HeaderSpec == HeaderInit /\ [][HeaderNext]_vars

(* ---------------------------------------------------------------------- *)
(* Specification of the render wait loop of _parse_with_playwright, the    *)
(* scroll and the capture that follow it                                   *)
(* ---------------------------------------------------------------------- *)
\* for i in range(30)
PollSamples == 30
\* await page.wait_for_timeout(2000), in milliseconds
PollInterval == 2000
\* len(html_check) > 80000
LoadedLength == 80000
\* wait_for_timeout(1000) after the scroll to the middle
MiddleWait == 1000
\* wait_for_timeout(2000) after the scroll to the bottom
BottomWait == 2000

\* what page.content() hands back: the URLs that occur in it and its length
PageContents ==
  [urls : {{}, {ForeignJpg}, {DetailImg}}, length : {500, LoadedLength, LoadedLength + 1}]

LongerOrEqual(html_check) == html_check.length >= LoadedLength
\* len(html_check) > 80000
LongerThan(html_check) == html_check.length > LoadedLength

\* 'ecombdimg.com' in html_check or len(html_check) > 80000
IsLoaded(html_check) ==
  \/ \E u \in html_check.urls : Contains(u, <<"ecombdimg.com">>)
  \/ LongerThan(html_check)

\* the locals of the strategy when it reaches the loop (line 196)
AtLoop ==
  [pc |-> "poll", i |-> 0, clock |-> 0, sampled_at |-> <<>>, html_check |-> <<>>,
   content_loaded |-> FALSE, scrolls |-> 0, html |-> <<>>, result |-> <<>>]

\* an await raised: except Exception: return None
Caught(locals) == [locals EXCEPT !.pc = "returned", !.result = <<Swallow(Raise("render"))>>]

\* one pass of the loop body on the sample page: the wait, the sample, the test
Sampled(locals, page) ==
  LET seen == [locals EXCEPT !.clock = @ + PollInterval,
                             !.sampled_at = Append(@, locals.clock + PollInterval),
                             !.html_check = <<page>>,
                             !.i = @ + 1]
  IN IF IsLoaded(page)
     THEN [seen EXCEPT !.content_loaded = TRUE, !.clock = @ + PollInterval, !.pc = "scroll"]
     ELSE IF seen.i = PollSamples THEN [seen EXCEPT !.pc = "scroll"]
     ELSE seen

RenderInit ==
  /\ input \in [product_id : {<<"735">>, <<"unknown">>},
                final_url : {HaohuoLink, ShortProductLink}]
  /\ output = AtLoop
  /\ Idle

\* lines 197-219: one iteration of the loop; any of its awaits may raise
PollSample ==
  /\ output.pc = "poll"
  /\ \/ output' = Caught(output)
     \/ \E page \in PageContents : output' = Sampled(output, page)
  /\ UNCHANGED <<input, calls, profile, selIn, selOut, selPc>>

\* lines 221-225: scroll to the middle, wait, scroll to the bottom, wait
Scroll ==
  /\ output.pc = "scroll"
  /\ \/ output' = Caught(output)
     \/ output' = [output EXCEPT !.scrolls = 2, !.clock = @ + MiddleWait + BottomWait, !.pc = "capture"]
  /\ UNCHANGED <<input, calls, profile, selIn, selOut, selPc>>

\* line 228: html = await page.content()
Capture ==
  /\ output.pc = "capture"
  /\ \/ output' = Caught(output)
     \/ \E page \in PageContents : output' = [output EXCEPT !.html = <<page>>, !.pc = "close"]
  /\ UNCHANGED <<input, calls, profile, selIn, selOut, selPc>>

\* lines 231-300: context.close(), then the harvest of the captured HTML
CloseAndHarvest ==
  /\ output.pc = "close"
  /\ \/ output' = Caught(output)
     \/ \E o \in harvest_rendered(input.product_id,
                                  [fails |-> FALSE, final_url |-> input.final_url,
                                   matches |-> rendered_matches(output.html[1].urls)]) :
          output' = [output EXCEPT !.result = <<o>>, !.pc = "returned"]
  /\ UNCHANGED <<input, calls, profile, selIn, selOut, selPc>>

RenderNext ==
  \/ PollSample
  \/ Scroll
  \/ Capture
  \/ CloseAndHarvest

\* every await of the strategy completes or raises: the event loop resumes the
\* coroutine
RenderSpec == RenderInit /\ [][RenderNext]_vars /\ WF_vars(RenderNext)

(* ---------------------------------------------------------------------- *)
(* Specification of _parse_from_webpage on one response                    *)
(* ---------------------------------------------------------------------- *)
WebpageInit ==
  /\ input \in WebPageResps
  /\ output = <<>>
  /\ Idle

\* response = await self.client.get(page_url) and the three methods on it
ParseFromWebpage ==
  /\ output = <<>>
  /\ output' = <<_parse_from_webpage(<<"735">>, input)>>
  /\ UNCHANGED <<input, calls, profile, selIn, selOut, selPc>>

WebpageNext == ParseFromWebpage

WebpageSpec == WebpageInit /\ [][WebpageNext]_vars

(* ---------------------------------------------------------------------- *)
(* Specification of threads calling AudioTranscriber.transcribe_audio      *)
(* ---------------------------------------------------------------------- *)
\* threads that call transcribe_audio
MaxThreads == 3
Threads == 1..MaxThreads
\* AudioTranscriber instances
Transcribers == {"medium", "small"}

\* __exit__ of `with _transcribe_lock` that leaves the lock held
StaysLocked(lock) == lock
\* __exit__ of `with _transcribe_lock`: the lock is released
Released(lock) == <<>>

\* a thread leaves the guarded section, by return or by raise
LeaveSection(state, t, to, outcome) ==
  [state EXCEPT !.lock = Released(@), !.pc[t] = to, !.last[t] = outcome]

LockInit ==
  /\ input \in {"zh", "en"}
  /\ output = [pc |-> [t \in Threads |-> "idle"],
               self |-> [t \in Threads |-> "medium"],
               lock |-> <<>>,
               model |-> [a \in Transcribers |-> FALSE],
               last |-> [t \in Threads |-> "none"]]
  /\ Idle

\* transcriber.transcribe_audio(audio_path, language) is called
CallTranscribe(t) ==
  /\ output.pc[t] = "idle"
  /\ \E a \in Transcribers :
       output' = [output EXCEPT !.pc[t] = "acquire", !.self[t] = a]
  /\ UNCHANGED <<input, calls, profile, selIn, selOut, selPc>>

\* with _transcribe_lock: __enter__ blocks until the lock is free
Acquire(t) ==
  /\ output.pc[t] = "acquire"
  /\ output.lock = <<>>
  /\ output' = [output EXCEPT !.lock = <<t>>, !.pc[t] = "load_model"]
  /\ UNCHANGED <<input, calls, profile, selIn, selOut, selPc>>

\* model = self.load_model(): loads when self.model is None; the load may raise
LoadModel(t) ==
  /\ output.pc[t] = "load_model"
  /\ \/ output' = [output EXCEPT !.model[output.self[t]] = TRUE, !.pc[t] = "transcribe"]
     \/ /\ ~output.model[output.self[t]]
        /\ output' = LeaveSection(output, t, "idle", "raised")
  /\ UNCHANGED <<input, calls, profile, selIn, selOut, selPc>>

\* result = model.transcribe(...), the last statement of the with block
Transcribe(t) ==
  /\ output.pc[t] = "transcribe"
  /\ \/ output' = LeaveSection(output, t, "punctuate", "none")
     \/ output' = LeaveSection(output, t, "idle", "raised")
  /\ UNCHANGED <<input, calls, profile, selIn, selOut, selPc>>

\* lines 108-192: the text is converted and punctuated, outside the lock
Punctuate(t) ==
  /\ output.pc[t] = "punctuate"
  /\ \E outcome \in {"returned", "raised"} :
       output' = [output EXCEPT !.pc[t] = "idle", !.last[t] = outcome]
  /\ UNCHANGED <<input, calls, profile, selIn, selOut, selPc>>

LockNext ==
  \E t \in Threads :
    \/ CallTranscribe(t)
    \/ Acquire(t)
    \/ LoadModel(t)
    \/ Transcribe(t)
    \/ Punctuate(t)

LockSpec == LockInit /\ [][LockNext]_vars

(* ---------------------------------------------------------------------- *)
(* Specification of transcribe_from_url of the three transcribers and the  *)
(* temporary files of one call                                             *)
(* ---------------------------------------------------------------------- *)
Backends == {"whisper", "aliyun", "baidu"}
\* the transcriber, whether its keys are set, whether the audio needs
\* several chunks, whether a Baidu token is cached
TranscribeCalls ==
  [backend : Backends, configured : BOOLEAN, long_audio : BOOLEAN, cached_token : BOOLEAN]

\* if path and os.path.exists(path): os.unlink(path)
UnlinkIfSet(files, path) == IF path # <<>> THEN files \ {path[1]} ELSE files

\* the finally of transcribe_from_url, then the call is over
Finish(locals, outcome) ==
  [locals EXCEPT !.files = UnlinkIfSet(@, locals.temp_path), !.pc = "finished",
                 !.outcome = outcome]
\* the finally of transcribe_short / BaiduASR.transcribe_audio, then that of
\* transcribe_from_url
FinishAudio(locals, outcome) ==
  Finish([locals EXCEPT !.files = UnlinkIfSet(@, locals.audio_path)], outcome)

\* the step of the chosen transcriber that follows `after`
StepAfter(call, after) ==
  CASE call.backend = "whisper" -> "transcribe"
    [] call.backend = "aliyun" ->
         (CASE after = "download" -> "configured"
            [] after = "configured" -> "extract"
            [] after = "extract" -> "token"
            [] OTHER -> "recognize")
    [] OTHER ->
         (CASE after = "download" -> "token"
            [] after = "token" -> "extract"
            [] OTHER -> "recognize")

TempInit ==
  /\ input \in TranscribeCalls
  /\ output = [pc |-> "create", files |-> {}, temp_path |-> <<>>, audio_path |-> <<>>,
               outcome |-> "none"]
  /\ Idle

\* download_video: tempfile.NamedTemporaryFile(suffix='.mp4', delete=False)
CreateTempFile ==
  /\ output.pc = "create"
  /\ output' = [output EXCEPT !.files = @ \cup {".mp4"}, !.pc = "download"]
  /\ UNCHANGED <<input, calls, profile, selIn, selOut, selPc>>

\* download_video from its try on: the stream is read to the end, or an
\* Exception is raised (the file is unlinked), or the awaiting task is
\* cancelled (CancelledError is no Exception: nothing is unlinked, and
\* temp_path of transcribe_from_url is still None)
Download ==
  /\ output.pc = "download"
  /\ \/ output' = [output EXCEPT !.temp_path = <<".mp4">>, !.pc = StepAfter(input, "download")]
     \/ output' = Finish([output EXCEPT !.files = @ \ {".mp4"}], "raised")
     \/ output' = Finish(output, "cancelled")
  /\ UNCHANGED <<input, calls, profile, selIn, selOut, selPc>>

\* AudioTranscriber.transcribe_audio: no file of its own
TranscribeWhisper ==
  /\ output.pc = "transcribe"
  /\ \E outcome \in {"returned", "raised"} : output' = Finish(output, outcome)
  /\ UNCHANGED <<input, calls, profile, selIn, selOut, selPc>>

\* transcribe_short: raise ValueError unless the three keys are set
CheckConfigured ==
  /\ output.pc = "configured"
  /\ output' = IF input.configured
               THEN [output EXCEPT !.pc = StepAfter(input, "configured")]
               ELSE Finish(output, "raised")
  /\ UNCHANGED <<input, calls, profile, selIn, selOut, selPc>>

\* _get_token / get_access_token
FetchToken ==
  /\ output.pc = "token"
  /\ \/ output' = [output EXCEPT !.pc = StepAfter(input, "token")]
     \/ /\ input.backend = "aliyun" \/ ~input.cached_token
        /\ output' = FinishAudio(output, "raised")
  /\ UNCHANGED <<input, calls, profile, selIn, selOut, selPc>>

\* extract_audio: the .wav / .pcm file is created, ffmpeg runs; on failure the
\* file is unlinked and the exception goes on
ExtractAudio ==
  /\ output.pc = "extract"
  /\ \/ output' = [output EXCEPT !.files = @ \cup {".wav"}, !.audio_path = <<".wav">>,
                                 !.pc = StepAfter(input, "extract")]
     \/ output' = FinishAudio(output, "raised")
  /\ UNCHANGED <<input, calls, profile, selIn, selOut, selPc>>

\* the file is read and recognized: one chunk, whose error goes on, or several,
\* whose errors are replaced by ""
Recognize ==
  /\ output.pc = "recognize"
  /\ \/ output' = FinishAudio(output, "returned")
     \/ /\ ~input.long_audio
        /\ output' = FinishAudio(output, "raised")
  /\ UNCHANGED <<input, calls, profile, selIn, selOut, selPc>>

TempNext ==
  \/ CreateTempFile
  \/ Download
  \/ TranscribeWhisper
  \/ CheckConfigured
  \/ FetchToken
  \/ ExtractAudio
  \/ Recognize

TempSpec == TempInit /\ [][TempNext]_vars

(* ---------------------------------------------------------------------- *)
(* Properties                                                              *)
(* ---------------------------------------------------------------------- *)
NoPlayableUrl == "Cannot find video URL"

\* position of a strategy in the order parse() is documented to try them
OrderIndex(s) ==
  CASE s = "share_page" -> 1
    [] s = "mobile_api" -> 2
    [] s = "web_api" -> 3
    [] s = "webpage" -> 4
    [] s = "playwright" -> 1
    [] s = "static_html" -> 2

IsLastStrategy(s) == s \in {"webpage", "static_html"}
Failed(entry) == entry.outcome \in {"empty", "error"}
LastEntry(call) == call.log[Len(call.log)]

\* the call ended by raising after its last strategy failed
Exhausted(call) ==
  /\ call.pc.stage = "raised"
  /\ call.log # <<>>
  /\ IsLastStrategy(LastEntry(call).strategy)
  /\ \A i \in 1..Len(call.log) : Failed(call.log[i])

\* C1: within one parse() call the strategies run one at a time in the fixed
\* order: every strategy started before the latest one has finished without
\* success, each started strategy is the successor of the one before it, a
\* success is the last entry of the trace, and the call returns exactly the
\* object the successful strategy produced.
C1_SequentialChain ==
  \A c \in Calls :
    LET call == calls[c]
        L == call.log
    IN /\ \A i \in 1..(Len(L) - 1) :
            /\ Failed(L[i])
            /\ OrderIndex(L[i + 1].strategy) = OrderIndex(L[i].strategy) + 1
       /\ L # <<>> =>
            /\ OrderIndex(L[1].strategy) = (IF call.kind = "video" /\ ~IsSharePage(call.real_url) THEN 2 ELSE 1)
            /\ (LastEntry(call).outcome = "running") = (call.pc.stage \in {"wait", "session"})
            /\ (LastEntry(call).outcome = "success") = (call.pc.stage = "returned")
       /\ call.pc.stage = "returned" =>
            /\ L # <<>>
            /\ call.result # <<>>
            /\ call.result = LastEntry(call).value

\* a video call that returned the webpage strategy's result after the mobile
\* API and the web API had failed
C1_Witness ==
  \E c \in Calls :
    /\ calls[c].pc.stage = "returned"
    /\ Len(calls[c].log) = 3
    /\ calls[c].log[3].strategy = "webpage"

\* C2: every VideoInfo returned by DouyinVideoParser.parse has a non-empty
\* video_url.
C2_NonEmptyVideoUrl ==
  \A c \in Calls :
    (calls[c].kind = "video" /\ calls[c].pc.stage = "returned" /\ calls[c].result # <<>>)
      => calls[c].result[1].video_url # <<>>

\* the error that parse() raises before any API strategy: no identifier
IsIdError(e) == e.type = "ValueError" /\ e.msg = "Cannot extract video ID from URL"

\* C3: when earlier strategies raised or returned nothing and a later one
\* produced a result, the call returns that result and raises nothing; an error
\* of a strategy reaches the caller only from the last strategy of the chain,
\* and the returned product keeps the identifier parse() extracted itself.
C3_EarlierFailuresHidden ==
  \A c \in Calls :
    LET call == calls[c]
        L == call.log
    IN /\ call.pc.stage = "returned" =>
            /\ call.error = <<>>
            /\ LastEntry(call).outcome = "success"
            /\ call.result = LastEntry(call).value
            /\ \A i \in 1..(Len(L) - 1) : L[i].value = <<>>
            /\ (LastEntry(call).strategy = "static_html"
                  => call.result[1].product_id = extract_product_id(call.url).id)
       /\ (call.pc.stage = "raised" /\ L # <<>> /\ ~IsIdError(call.error[1]))
            => IsLastStrategy(LastEntry(call).strategy)
       /\ call.pc.stage \notin {"returned", "raised"} => call.error = <<>> /\ call.result = <<>>

\* strategy 1 raised, strategy 2 returned nothing, strategy 3 returned a result
C3_Witness ==
  \E c \in Calls :
    /\ calls[c].pc.stage = "returned"
    /\ Len(calls[c].log) = 3
    /\ calls[c].log[1].outcome = "error"
    /\ calls[c].log[2].outcome = "empty"
    /\ calls[c].log[3].outcome = "success"
    /\ calls[c].result[1].video_url # <<>>

C5_ProfileExclusive == Cardinality(profile) <= 1

\* C6: every video_url returned by DouyinVideoParser.parse contains neither
\* 'watermark=1' nor 'playwm'.
C6_WatermarkFree ==
  \A c \in Calls :
    (calls[c].kind = "video" /\ calls[c].pc.stage = "returned" /\ calls[c].result # <<>>)
      => /\ ~Contains(calls[c].result[1].video_url, WM1)
         /\ ~Contains(calls[c].result[1].video_url, PLAYWM)

\* C7: given a play-address URL with both 'watermark=1' and 'playwm', the
\* selector returns that URL with watermark=0 and playwm turned into play.
C7_ToggleAndMarker ==
  (selPc = "returned" /\ Len(selIn.video.play_addr) = 1
     /\ Contains(selIn.video.play_addr[1], WM1)
     /\ Contains(selIn.video.play_addr[1], PLAYWM))
    => selOut.url = StrReplace(StrReplace(selIn.video.play_addr[1], WM1, WM0), PLAYWM, PLAY)

NoVariantUrl(video) == \A i \in 1..Len(video.bit_rate) : video.bit_rate[i].url_list = <<>>

\* C8: the selector returns a download-address URL only when the play-address
\* list and every bitrate variant provide none, raises exactly when the three
\* sources all provide none, and never returns an empty URL.
C8_FallbackAndFailure ==
  selPc # "ready" =>
    LET video == selIn.video
        nothingBefore == video.play_addr = <<>> /\ NoVariantUrl(video)
    IN /\ (selPc = "raised") = (nothingBefore /\ video.download_addr = <<>>)
       /\ (selPc = "returned" /\ selOut.url = DownloadUrl) => nothingBefore
       /\ selPc = "returned" => selOut.url # <<>>

\* the variants that have a URL, and the one sorted() puts first among them
WithUrl(video) == {i \in 1..Len(video.bit_rate) : video.bit_rate[i].url_list # <<>>}
Best(video) ==
  CHOOSE i \in WithUrl(video) :
    \A j \in WithUrl(video) :
      \/ video.bit_rate[i].bit_rate > video.bit_rate[j].bit_rate
      \/ (video.bit_rate[i].bit_rate = video.bit_rate[j].bit_rate /\ i <= j)

\* C9 as claimed: whenever variants with a URL exist, the chosen URL is the
\* first URL of a highest-bit_rate variant (as listed or with the toggle off).
C9_AlwaysHighestBitrate ==
  (selPc = "returned" /\ WithUrl(selIn.video) # {})
    => \E i \in WithUrl(selIn.video) :
         /\ \A j \in WithUrl(selIn.video) :
              selIn.video.bit_rate[i].bit_rate >= selIn.video.bit_rate[j].bit_rate
         /\ selOut.url \in {selIn.video.bit_rate[i].url_list[1],
                            StrReplace(selIn.video.bit_rate[i].url_list[1], WM1, WM0)}

\* C9 amended: when the play-address list has no URL and variants with a URL
\* exist, the chosen URL is the first URL of the highest-bit_rate variant that
\* has one (the earliest listed on a tie), with watermark=1 rewritten to
\* watermark=0; when the play-address list has a URL, a play-address URL is
\* chosen whatever the variants.
C9_HighestBitrateAfterPlay ==
  selPc # "ready" =>
    LET video == selIn.video
    IN /\ (video.play_addr = <<>> /\ WithUrl(video) # {})
            => /\ selPc = "returned"
               /\ selOut.url = StrReplace(video.bit_rate[Best(video)].url_list[1], WM1, WM0)
       /\ video.play_addr # <<>>
            => /\ selPc = "returned"
               /\ \E i \in 1..Len(video.play_addr) :
                    selOut.url = StrReplace(video.play_addr[i], WM1, WM0)

\* no play address, a lower variant listed before a higher one, both with URLs
C9_Witness ==
  /\ selPc = "returned"
  /\ selIn.video.play_addr = <<>>
  /\ Len(selIn.video.bit_rate) = 2
  /\ selIn.video.bit_rate[1].url_list # <<>>
  /\ selIn.video.bit_rate[2].url_list # <<>>
  /\ selIn.video.bit_rate[1].bit_rate < selIn.video.bit_rate[2].bit_rate
  /\ selIn.video.bit_rate[1].url_list[1] # selIn.video.bit_rate[2].url_list[1]
  /\ selOut.url = CleanUrl

\* C10 as claimed: a no-playable-URL error of a strategy ends the call: it is
\* the last entry of the trace and the call has raised it.
C10_NoPlayableIsFatal ==
  \A c \in Calls :
    \A i \in 1..Len(calls[c].log) :
      calls[c].log[i].reason = NoPlayableUrl
        => /\ i = Len(calls[c].log)
           /\ calls[c].pc.stage = "raised"

\* C10 amended: a no-playable-URL error is surfaced and fatal only when it
\* arises in the webpage strategy (RENDER_DATA method), the last of the chain;
\* arising in the web API strategy it is swallowed and the webpage strategy is
\* run next.
C10_NoPlayableFatalOnlyLast ==
  \A c \in Calls :
    LET call == calls[c]
        L == call.log
    IN \A i \in 1..Len(L) :
         L[i].reason = NoPlayableUrl =>
           \/ /\ L[i].strategy = "web_api"
              /\ L[i].outcome = "error"
              /\ IF i = Len(L)
                 THEN call.pc = At("start", "webpage") /\ call.error = <<>>
                 ELSE L[i + 1].strategy = "webpage"
           \/ /\ L[i].strategy = "webpage"
              /\ i = Len(L)
              /\ call.pc.stage = "raised"
              /\ call.error[1].attempts = <<[strategy |-> "webpage", reason |-> NoPlayableUrl]>>

\* the web API found no playable URL and the webpage strategy then returned one
C10_Witness ==
  \E c \in Calls :
    /\ calls[c].pc.stage = "returned"
    /\ Len(calls[c].log) >= 2
    /\ calls[c].log[Len(calls[c].log) - 1].strategy = "web_api"
    /\ calls[c].log[Len(calls[c].log) - 1].reason = NoPlayableUrl
    /\ LastEntry(calls[c]).strategy = "webpage"

ReturnedProduct(c) == calls[c].kind = "product" /\ calls[c].pc.stage = "returned"

\* C11: every ProductInfo returned by DouyinProductParser.parse has at least
\* one image: main_images and detail_images are not both empty, whichever of
\* the two strategies produced it.
C11_AtLeastOneImage ==
  \A c \in Calls :
    ReturnedProduct(c) =>
      calls[c].result[1].main_images # <<>> \/ calls[c].result[1].detail_images # <<>>

\* a product returned by the static-HTML strategy with main images only,
\* after the rendered-DOM strategy found no image
C11_Witness ==
  \E c \in Calls :
    /\ ReturnedProduct(c)
    /\ Len(calls[c].log) = 2
    /\ calls[c].log[1].outcome = "empty"
    /\ calls[c].log[2].strategy = "static_html"
    /\ calls[c].result[1].main_images # <<>>
    /\ calls[c].result[1].detail_images = <<>>

NoRepeat(s) == \A i, j \in 1..Len(s) : i # j => s[i] # s[j]

\* C12: in every ProductInfo returned, no URL occurs more than once across
\* main_images and detail_images together: no duplicate inside either list and
\* no URL in both lists.
C12_NoDuplicateUrl ==
  \A c \in Calls :
    ReturnedProduct(c) =>
      /\ NoRepeat(calls[c].result[1].main_images)
      /\ NoRepeat(calls[c].result[1].detail_images)
      /\ ToSet(calls[c].result[1].main_images) \cap ToSet(calls[c].result[1].detail_images) = {}

\* the substrings the validity predicate is documented to disallow
ClaimedDisallowed ==
  {"icon", "logo", "avatar", "placeholder", "sprite", "button", "blank", "transparent",
   "emoji", "badge", "default", "1x1", "2x2"}

\* C13: _is_valid_product_image rejects every URL shorter than 20 characters
\* and every URL containing a disallow-listed substring in any letter case,
\* whatever its extension or CDN domain.
C13_RejectsShortAndDisallowed ==
  (output # <<>> /\ (StrLen(input) < MinUrlLen \/ HasToken(Lower(input), ClaimedDisallowed)))
    => output[1] = FALSE

\* an upper-case ICON in a URL of an allow-listed CDN with an image extension, rejected
C13_Witness ==
  /\ output = <<FALSE>>
  /\ HasToken(input, {"ICON"})
  /\ HasToken(input, {"ecombdimg.com"})
  /\ HasToken(input, {".jpg"})
  /\ StrLen(input) >= MinUrlLen

\* the host of a URL: what stands between '//' and the next '/'
HostOf(url) ==
  LET ends == {i \in 4..Len(url) : url[i] = "/"}
  IN SubSeq(url, 4, IF ends = {} THEN Len(url)
                    ELSE (CHOOSE i \in ends : \A j \in ends : i <= j) - 1)
\* the end of the path: what stands before '?', or at the end of the URL
PathEnd(url) ==
  LET marks == {i \in 1..Len(url) : url[i] = "?"}
  IN IF marks = {} THEN url[Len(url)]
     ELSE url[(CHOOSE i \in marks : \A j \in marks : i <= j) - 1]
HasImageExtension(url) == LowerToken(PathEnd(url)) \in ImageExts
HostAllowListed(url) == HasToken(Lower(HostOf(url)), BytedanceCdns)

\* C14: every URL the validity predicate accepts has an image file extension
\* or a host of the allow-list; an allow-listed domain elsewhere in the URL
\* does not make it valid.
C14_ExtensionOrAllowedHost ==
  output = <<TRUE>> => (HasImageExtension(input) \/ HostAllowListed(input))

\* what a dict visited by a miner reads without recursion: a list and its elements
InPlaceLevels == 2

\* data without what is nested more than bound containers deep
RECURSIVE Prune(_, _, _)
Prune(node, depth, bound) ==
  IF ~IsContainer(node) THEN node
  ELSE IF depth > bound THEN [node EXCEPT !.kids = <<>>]
  ELSE [node EXCEPT !.kids = [i \in 1..Len(node.kids) |->
                                 KV(node.kids[i].k, Prune(node.kids[i].v, depth + 1, bound))]]

\* a product record under a container key of a dict at most bound dicts deep
RECURSIVE CandidateWithin(_, _, _)
CandidateWithin(node, depth, bound) ==
  /\ IsContainer(node)
  /\ depth <= bound
  /\ \E i \in 1..Len(node.kids) :
       \/ /\ node.t = "obj"
          /\ Lower(node.kids[i].k) \in container_keys
          /\ node.kids[i].v.t = "obj"
          /\ MentionsImages(node.kids[i].v)
       \/ CandidateWithin(node.kids[i].v, depth + 1, bound)

RECURSIVE FirstMatch(_, _)
RECURSIVE FirstMatchItems(_, _, _)
FirstMatchItems(t, kids, keys) ==
  IF kids = <<>> THEN <<>>
  ELSE LET value == Head(kids).v
           own == IF t = "obj" /\ Lower(Head(kids).k) \in keys /\ value.t = "str"
                  THEN value.s ELSE <<>>
       IN IF own # <<>> THEN own
          ELSE IF FirstMatch(value, keys) # <<>> THEN FirstMatch(value, keys)
          ELSE FirstMatchItems(t, Tail(kids), keys)
FirstMatch(node, keys) ==
  IF IsContainer(node) THEN FirstMatchItems(node.t, node.kids, keys) ELSE <<>>

\* C16: in generic-mode mining the title and the video of the result are the
\* first non-empty matching strings of the tree in source order.
C16_FirstEncounteredWins ==
  (output.extracted # <<>> /\ output.extracted[1] # <<>>) =>
     /\ output.extracted[1][1].title = FirstMatch(input, title_keys)
     /\ output.extracted[1][1].video = FirstMatch(input, video_keys)

\* the targeted mining gave exactly the URLs of the list as main images
YieldsMain(urls) ==
  /\ output.targeted[1] # <<>>
  /\ ToSet(output.targeted[1][1].main) = {u \in ToSet(urls) : _is_valid_product_image(u)}
  /\ NoRepeat(output.targeted[1][1].main)
  /\ output.targeted[1][1].detail = <<>>

C19_NormalizeIdempotent ==
  Len(output) = 2 =>
    /\ output[2].ok
    /\ output[2].real_url = output[1].real_url
    /\ output[2].video_id = output[1].video_id

\* a short link that redirects through a second short link to a video page
C19_Witness ==
  /\ Len(output) = 2
  /\ input.url = ShortVideoLink
  /\ input.hops[ShortVideoLink] = ShortVideoLink2
  /\ output[1].video_id # <<>>

IsProductIdError(e) == e.type = "ValueError" /\ e.msg = "cannot extract product id"
RecognizedHost(url) ==
  HasToken(HostOf(url), {"douyin.com", "iesdouyin.com", "tiktok.com", "jinritemai.com"})
RaisedIdError(call) ==
  /\ call.pc.stage = "raised"
  /\ IsIdError(call.error[1]) \/ IsProductIdError(call.error[1])

HasProductId(url) ==
  \/ \E i \in 1..(Len(url) - 1) : url[i] = "id=" /\ url[i + 1] \in DigitTokens
  \/ SearchBareId(url) # <<>>

RenderFailedAt(call, i) ==
  /\ call.log[i].strategy = "playwright"
  /\ call.log[i].outcome = "error"

\* C21: when the browser-rendering strategy ends in an error (at the launch or
\* anywhere from the navigation to the capture of the HTML), the strategy
\* yields no result, the error does not leave parse (parse raises only its own
\* ValueError once the static-HTML strategy has run too), and the static-HTML
\* strategy is the next one to run.
C21_RenderErrorContained ==
  \A c \in Calls :
    \A i \in 1..Len(calls[c].log) :
      RenderFailedAt(calls[c], i) =>
        /\ calls[c].log[i].value = <<>>
        /\ \/ calls[c].pc = At("start", "static_html") /\ i = Len(calls[c].log)
           \/ i < Len(calls[c].log) /\ calls[c].log[i + 1].strategy = "static_html"
        /\ calls[c].error # <<>> =>
             /\ calls[c].error[1] = product_exhausted
             /\ calls[c].log[Len(calls[c].log)].strategy = "static_html"
             /\ calls[c].log[Len(calls[c].log)].outcome # "running"

\* the rendering raised after the launch, and the static-HTML strategy then
\* returned a product
C21_Witness ==
  \E c \in Calls :
    /\ Len(calls[c].log) = 2
    /\ RenderFailedAt(calls[c], 1)
    /\ calls[c].log[1].reason = "render"
    /\ calls[c].log[2].strategy = "static_html"
    /\ calls[c].pc = At("returned", "none")

(* ---------------------------------------------------------------------- *)
(* C22: the cookie on the requests of a video resolution                   *)
(* ---------------------------------------------------------------------- *)
\* C22: when a cookie was supplied to the parser, every request that parse has
\* issued (short-link redirect, share page, mobile API, web API, webpage)
\* carries it in its Cookie header.
C22_CookieOnEveryRequest ==
  Truthy(input.cookie) =>
    \A i \in 1..Len(output.sent) :
      Header("Cookie", input.cookie[1]) \in output.sent[i].headers

(* ---------------------------------------------------------------------- *)
(* C23: the identifier of a returned result                                *)
(* ---------------------------------------------------------------------- *)
\* VideoInfo.video_id / ProductInfo.product_id of what the call returned
EntityId(call) ==
  IF call.kind = "video" THEN call.result[1].video_id ELSE call.result[1].product_id

\* C23: the identifier carried by the result of a call that returned is
\* non-empty, whichever strategy produced the result.
C23_NonEmptyEntityId ==
  \A c \in Calls : calls[c].result # <<>> => EntityId(calls[c]) # <<>>

(* ---------------------------------------------------------------------- *)
(* C24: the render wait loop                                               *)
(* ---------------------------------------------------------------------- *)
\* the sample shows the asset-host marker or is longer than 80,000 characters
ShowsContent(page) ==
  \/ \E u \in page.urls : HasToken(u, {"ecombdimg.com"})
  \/ page.length > 80000

\* the loop has ended without an await raising
LoopEnded == output.pc \in {"scroll", "capture", "close"} \/ output.html # <<>>

\* the state part of C24
WaitLoopShape ==
  /\ Len(output.sampled_at) <= 30
  /\ \A k \in 1..Len(output.sampled_at) : output.sampled_at[k] = 2000 * k
  /\ output.pc = "poll" =>
       /\ Len(output.sampled_at) < 30
       /\ output.html_check # <<>> => ~ShowsContent(output.html_check[1])
  /\ LoopEnded =>
       /\ output.html_check # <<>>
       /\ output.content_loaded <=> ShowsContent(output.html_check[1])
       /\ ~output.content_loaded => Len(output.sampled_at) = 30
  /\ output.pc \in {"poll", "scroll"} => output.scrolls = 0 /\ output.html = <<>>
  /\ output.html # <<>> => output.scrolls = 2
  /\ (output.result # <<>> /\ output.result[1].kind # "caught") => output.html # <<>>

\* C24: the wait loop samples the page at most 30 times, 2 units apart, stops
\* at the first sample that shows the marker or is longer than 80,000
\* characters and otherwise after the 30th; it always ends, and unless an
\* await raises the strategy then scrolls and only afterwards captures the
\* HTML it harvests (a wait that ran out is not an error).
C24_WaitLoopThenScrollThenCapture ==
  /\ []WaitLoopShape
  /\ <>(output.pc # "poll")
  /\ <>(output.pc = "returned")

\* 30 samples without content, then the scroll, the capture and a product
C24_Witness ==
  /\ Len(output.sampled_at) = 30
  /\ ~output.content_loaded
  /\ output.scrolls = 2
  /\ output.pc = "returned"
  /\ output.result[1].kind = "value"

(* ---------------------------------------------------------------------- *)
(* C25, C26: the roles of the accepted URLs                                *)
(* ---------------------------------------------------------------------- *)
\* the keywords the harvest path of the run looks for, and how it looks
CarriesKeyword(run, u) ==
  IF run.path = "rendered"
  THEN \E kw \in {"main", "primary", "cover", "thumb", "origin"} : Contains(Lower(u), <<kw>>)
  ELSE \E kw \in {"main", "primary", "cover", "thumb"} : Contains(u, <<kw>>)

Min(a, b) == IF a < b THEN a ELSE b

\* C25: after the classification of a harvest, main_images and detail_images
\* are disjoint and together are the accepted set; when no accepted URL
\* carries a main keyword and n > 0 URLs were accepted, exactly min(5, n) are
\* main and the other n - min(5, n) detail; main is non-empty whenever a URL
\* was accepted.
C25_RolesPartitionAccepted ==
  \A i \in 1..Len(output) :
    LET run == output[i]
        n == Cardinality(run.all_images)
    IN /\ run.main_images \cap run.detail_images = {}
       /\ run.main_images \cup run.detail_images = run.all_images
       /\ (n > 0 /\ \A u \in run.all_images : ~CarriesKeyword(run, u)) =>
            /\ Cardinality(run.main_images) = Min(5, n)
            /\ Cardinality(run.detail_images) = n - Min(5, n)
       /\ n > 0 => run.main_images # {}

\* six accepted URLs without a keyword: five promoted, one left as detail
C25_Witness ==
  /\ output # <<>>
  /\ Cardinality(output[1].all_images) = 6
  /\ \A u \in output[1].all_images : ~CarriesKeyword(output[1], u)
  /\ Cardinality(output[1].main_images) = 5
  /\ Cardinality(output[1].detail_images) = 1

\* the URL contains one of the five keywords, as written
HasMainKeyword(u) ==
  \E kw \in {"main", "primary", "cover", "thumb", "origin"} : Contains(u, <<kw>>)

\* C26: in the harvest of either strategy an accepted URL that contains main,
\* primary, cover, thumb or origin is a main image, and when some accepted URL
\* contains one of them every other accepted URL is a detail image: the role
\* of a URL does not depend on the strategy.
C26_SameKeywordsInBothPaths ==
  \A i \in 1..Len(output) :
    \A u \in output[i].all_images :
      /\ HasMainKeyword(u) => u \in output[i].main_images
      /\ (~HasMainKeyword(u) /\ \E v \in output[i].all_images : HasMainKeyword(v)) =>
           u \in output[i].detail_images

(* ---------------------------------------------------------------------- *)
(* C27: the product_id of a result for a short link                        *)
(* ---------------------------------------------------------------------- *)
IsPlaceholder(product_id) == product_id \in {<<"SHORT_LINK">>, <<"unknown">>}

\* C27: a ProductInfo returned for a link whose identifier was pending never
\* has 'SHORT_LINK' or 'unknown' as its product_id.
C27_NoPlaceholderId ==
  \A c \in Calls :
    (calls[c].kind = "product" /\ calls[c].id = <<"SHORT_LINK">> /\ calls[c].result # <<>>) =>
       ~IsPlaceholder(calls[c].result[1].product_id)

(* ---------------------------------------------------------------------- *)
(* C28: the three extraction methods of the webpage strategy               *)
(* ---------------------------------------------------------------------- *)
\* the RENDER_DATA JSON holds a detail with a playable URL
RenderDataYields(html) ==
  /\ html.render \in {"aweme", "awemeDetail"}
  /\ _get_no_watermark_url(html.detail).ok
\* the _SSR_HYDRATED_DATA JSON does
SsrDataYields(html) ==
  /\ html.ssr = "aweme"
  /\ _get_no_watermark_url(html.detail).ok
\* one of the two patterns for a play address matches the HTML
RegexYields(html) == html.playAddrSrc # <<>> \/ html.urlListSrc # <<>>

\* C28: _parse_from_webpage tries RENDER_DATA, _SSR_HYDRATED_DATA and the
\* regex on the HTML in that order, going on to the next method whenever one
\* yields no video data (its JSON not decoding or lacking the keys included):
\* on a page that was fetched it fails only when none of the three yields.
C28_FailsOnlyWhenAllMethodsYieldNothing ==
  (output # <<>> /\ ~input.fails /\ output[1].kind = "raise") =>
     /\ ~RenderDataYields(input.html[1])
     /\ ~SsrDataYields(input.html[1])
     /\ ~RegexYields(input.html[1])

(* ---------------------------------------------------------------------- *)
(* C29: the module-level lock of transcribe_audio                          *)
(* ---------------------------------------------------------------------- *)
\* the thread is between __enter__ and __exit__ of the with block
InSection(t) == output.pc[t] \in {"load_model", "transcribe"}

\* C29: whatever the interleaving of the threads calling transcribe_audio, on
\* one transcriber or on several, at most one thread is inside the section
\* that loads the model and transcribes, and the lock is held exactly while a
\* thread is inside it: it is released when the section returns or raises.
C29_OneThreadInSection ==
  /\ \A t, u \in Threads : (InSection(t) /\ InSection(u)) => t = u
  /\ \A t \in Threads : InSection(t) <=> output.lock = <<t>>
  /\ (\A t \in Threads : ~InSection(t)) => output.lock = <<>>

\* a thread raised inside the section and another one, on another transcriber,
\* is inside it now while a third waits for the lock
C29_Witness ==
  \E t, u, w \in Threads :
    /\ output.last[t] = "raised"
    /\ output.pc[t] = "idle"
    /\ InSection(u)
    /\ output.self[u] # output.self[t]
    /\ output.pc[w] = "acquire"

(* ---------------------------------------------------------------------- *)
(* C30: the temporary files of transcribe_from_url                         *)
(* ---------------------------------------------------------------------- *)
\* C30: when transcribe_from_url is over, by returning the text or by a raise
\* at any step, no temporary file the call created exists any more; for the
\* Whisper, the Aliyun and the Baidu transcriber.
C30_NoTempFileLeft == output.pc = "finished" => output.files = {}

====
